---- MODULE Spec2Model ----
(***************************************************************************)
(* A model of the Chronos kernel (kingpoem/Chronos): the bitmap frame      *)
(* allocator, the SV39 page table, the memory set (address space), the     *)
(* task manager / scheduler and the trap handler paths that drive them.    *)
(*                                                                         *)
(* Sizes are scaled down: a page table has Fanout entries instead of 512,  *)
(* a bitmap word has WordBits bits instead of 64, a page has PageBytes     *)
(* bytes instead of 4096.  All index arithmetic is kept as in the source.  *)
(***************************************************************************)
EXTENDS Integers, Sequences, FiniteSets, TLC

(***************************************************************************)
(* Bounds of the model                                                     *)
(***************************************************************************)
\* frames managed by the allocator in the concurrent-allocator specification
AllocFrames == 3
\* bits of one bitmap word (64 in the source)
WordBits == 2
\* harts running alloc/dealloc concurrently
NumHarts == 2
\* alloc() calls started in one run of the concurrent-allocator specification
MaxAllocCalls == 4

\* entries of one page table (512 in the source)
Fanout == 2
\* bytes of one page (4096 in the source)
PageBytes == 2
\* frames managed by the allocator in the page-table specification
PtFrames == 3
\* frames of the kernel's allocator
KernelFrames == 52
\* slots of the task table
NumSlots == 3
\* applications linked into the kernel image
MaxApps == 2
\* applications and frames of the runs without sys_mmap / sys_munmap
SchedApps == 3
SchedFrames == 59
\* sys_mmap / sys_munmap calls in one run
MaxMemCalls == 2

None == 0 - 1

Min(a, b) == IF a < b THEN a ELSE b
\* F applied to the value of x, x evaluated once
With(x, F(_)) == CHOOSE r \in {F(y) : y \in {x}} : TRUE

(***************************************************************************)
(* State                                                                   *)
(***************************************************************************)
VARIABLES
    \* BitmapFrameAllocator
    bitmap,         \* [0 .. total_frames-1 -> BOOLEAN], TRUE = allocated
    next,           \* rotating cursor
    total_frames,   \* end_ppn - start_ppn
    \* harts inside alloc()/dealloc() (concurrent-allocator specification)
    hart,           \* per hart: pc and the locals of alloc()
    held,           \* per hart: the frames alloc() returned and not yet dealloc'ed
    calls,          \* alloc() calls started so far
    \* physical memory
    ptmem,          \* [PPN -> table]: a frame read as a page table
    data,           \* [PPN -> bytes]: a frame read as data
    \* a page table under test (page-table specification)
    pt_root,        \* the root table
    pt_last,        \* the last call made on it, its result, and the tables before it
    \* -- the kernel --
    KERNEL_SPACE_INTERNAL,  \* mm: the kernel address space built by mm::init
    KERNEL_SPACE,           \* task: the kernel address space of the task subsystem
    tasks,                  \* TaskManager.tasks: slot -> task control block or NoTask
    current_task,           \* TaskManager.current_task: a slot or None
    current_time_slice,     \* Scheduler.current_time_slice
    phase,                  \* "load", "run", "shutdown" or "panic"
    num_loaded,             \* applications loaded so far
    mem_calls,              \* sys_mmap / sys_munmap calls made so far
    intr,                   \* the hart's sie.STIE, sstatus.SIE and whether a timer is set
    ready_q,                \* history: the Ready tasks, longest Ready first
    last,                   \* history: the last kernel operation and what it saw
    \* -- the embedded applications --
    link_apps,              \* the app table and the blobs' symbols, as the build emits them
    app_range,              \* history: the last get_app_data call and the range it gave
    \* -- paired alloc/dealloc (mm::test) --
    alloc_last              \* history: the last call, the frames taken and the bitmaps before

allocVars == <<bitmap, next, total_frames>>
hartVars == <<hart, held, calls>>
physVars == <<ptmem, data>>
ptVars == <<pt_root, pt_last>>
kernelVars == <<KERNEL_SPACE_INTERNAL, KERNEL_SPACE, tasks, current_task,
                current_time_slice, phase, num_loaded, mem_calls, intr, ready_q, last>>
appVars == <<link_apps, app_range>>
vars == <<bitmap, next, total_frames, hart, held, calls, ptmem, data, pt_root, pt_last,
          kernelVars, appVars, alloc_last>>
\* what each specification leaves alone
restOfAlloc == <<physVars, ptVars, kernelVars, appVars, alloc_last>>
restOfPT == <<total_frames, hartVars, kernelVars, appVars, alloc_last>>
restOfKernel == <<total_frames, hartVars, ptVars, appVars, alloc_last>>
restOfApps == <<allocVars, hartVars, physVars, ptVars, kernelVars, alloc_last>>
restOfPair == <<total_frames, hartVars, ptVars, kernelVars, appVars>>

\* no app table is under test
AppsOff == link_apps = <<>> /\ app_range = <<>>
\* no alloc/dealloc pair is under test
PairOff == alloc_last = <<>>

\* the kernel has not been started
KernelOff ==
    /\ KERNEL_SPACE_INTERNAL = <<>> /\ KERNEL_SPACE = <<>>
    /\ tasks = <<>> /\ current_task = None /\ current_time_slice = 0
    /\ phase = "off" /\ num_loaded = 0 /\ mem_calls = 0 /\ intr = <<>>
    /\ ready_q = <<>> /\ last = <<>>

(***************************************************************************)
(* Frame allocator (mm/frame_allocator.rs)                                 *)
(***************************************************************************)
\* config: the kernel heap window, scaled to two pages after page 0
KERNEL_HEAP_START == PageBytes
KERNEL_HEAP_SIZE == 2 * PageBytes
KERNEL_HEAP_END == KERNEL_HEAP_START + KERNEL_HEAP_SIZE
\* mm::init: the start of the range handed to frame_allocator::init
mem_start == KERNEL_HEAP_START
\* BitmapFrameAllocator::init: first PPN managed by the allocator
start_ppn == (mem_start + PageBytes - 1) \div PageBytes

\* the bitmap word holding bit idx, and the indices that word covers
bitmap_idx(idx) == idx \div WordBits
WordIdxs(w, total) == {i \in 0 .. total - 1 : bitmap_idx(i) = w}
\* the value of word w: the set of bits that are 1
WordVal(bm, w, total) == {i \in WordIdxs(w, total) : bm[i]}

\* compare_exchange(old_val, new_val): succeeds iff the word still equals old_val
CasOk_NoCompare(cur, old_val) == TRUE
CasOk(cur, old_val) == cur = old_val

\* the word after a store of new_val
StoreWord(bm, w, new_val, total) ==
    [i \in 0 .. total - 1 |-> IF i \in WordIdxs(w, total) THEN i \in new_val ELSE bm[i]]

\* dealloc(ppn): clears the bit; a PPN outside [start_ppn, end_ppn) is ignored
dealloc_SkipsFirst(bm, ppn, total) ==
    IF ppn <= start_ppn \/ ppn >= start_ppn + total
    THEN bm
    ELSE [bm EXCEPT ![ppn - start_ppn] = FALSE]
dealloc(bm, ppn, total) ==
    IF ppn < start_ppn \/ ppn >= start_ppn + total
    THEN bm
    ELSE [bm EXCEPT ![ppn - start_ppn] = FALSE]

\* free_frames(): the number of 0 bits
free_frames(bm, total) == Cardinality({i \in 0 .. total - 1 : ~bm[i]})

(***************************************************************************)
(* alloc()/dealloc() step by step, one atomic memory access per step       *)
(***************************************************************************)
Harts == 1 .. NumHarts

\* stayed is history: the frames that have been free ever since the call began
IdleHart ==
    [pc |-> "idle", start_idx |-> 0, offset |-> 0, idx |-> 0, old_val |-> {}, stayed |-> {}]

\* let start_idx = self.next.load(Relaxed)
AllocStart(h) ==
    /\ hart[h].pc = "idle"
    /\ calls < MaxAllocCalls
    /\ calls' = calls + 1
    /\ hart' = [hart EXCEPT ![h] =
                    [IdleHart EXCEPT !.pc = "scan", !.start_idx = next,
                                     !.stayed = {i \in 0 .. total_frames - 1 : ~bitmap[i]}]]
    /\ UNCHANGED <<allocVars, held, restOfAlloc>>

\* one iteration of the for loop up to the word load: old_val = bitmap[..].load()
AllocLoad(h) ==
    /\ hart[h].pc = "scan"
    /\ hart[h].offset < total_frames
    /\ LET idx == (hart[h].start_idx + hart[h].offset) % total_frames
           old == WordVal(bitmap, bitmap_idx(idx), total_frames)
       IN  hart' = [hart EXCEPT ![h] =
                IF idx \in old
                THEN [@ EXCEPT !.offset = @ + 1]
                ELSE [@ EXCEPT !.pc = "cas", !.idx = idx, !.old_val = old]]
    /\ UNCHANGED <<allocVars, held, calls, restOfAlloc>>

\* compare_exchange(old_val, old_val | mask)
AllocCas(h) ==
    /\ hart[h].pc = "cas"
    /\ LET w == bitmap_idx(hart[h].idx)
           cur == WordVal(bitmap, w, total_frames)
       IN  IF CasOk(cur, hart[h].old_val)
           THEN /\ bitmap' = StoreWord(bitmap, w, hart[h].old_val \cup {hart[h].idx},
                                       total_frames)
                /\ hart' = [h2 \in Harts |->
                                IF h2 = h THEN [hart[h] EXCEPT !.pc = "ret"]
                                ELSE [hart[h2] EXCEPT !.stayed = @ \ {hart[h].idx}]]
           ELSE /\ bitmap' = bitmap
                /\ hart' = [hart EXCEPT ![h] = [@ EXCEPT !.pc = "scan", !.offset = @ + 1,
                                                        !.idx = 0, !.old_val = {}]]
    /\ UNCHANGED <<next, total_frames, held, calls, restOfAlloc>>

\* self.next.store((idx + 1) % total_frames); return Some(ppn)
AllocReturn(h) ==
    /\ hart[h].pc = "ret"
    /\ next' = (hart[h].idx + 1) % total_frames
    /\ held' = [held EXCEPT ![h] = @ \cup {start_ppn + hart[h].idx}]
    /\ hart' = [hart EXCEPT ![h] = IdleHart]
    /\ UNCHANGED <<bitmap, total_frames, calls, restOfAlloc>>

\* the loop ran out: return None
AllocNone(h) ==
    /\ hart[h].pc = "scan"
    /\ hart[h].offset >= total_frames
    /\ hart' = [hart EXCEPT ![h] = IdleHart]
    /\ UNCHANGED <<allocVars, held, calls, restOfAlloc>>

\* dealloc(ppn) of a frame the hart holds: one fetch_and
Dealloc(h) ==
    /\ hart[h].pc = "idle"
    /\ \E p \in held[h] :
        /\ bitmap' = dealloc(bitmap, p, total_frames)
        /\ held' = [held EXCEPT ![h] = @ \ {p}]
    /\ UNCHANGED <<next, total_frames, hart, calls, restOfAlloc>>

InitAlloc ==
    /\ total_frames = AllocFrames
    /\ bitmap = [i \in 0 .. AllocFrames - 1 |-> FALSE]
    /\ next = 0
    /\ hart = [h \in Harts |-> IdleHart]
    /\ held = [h \in Harts |-> {}]
    /\ calls = 0
    /\ ptmem = <<>> /\ data = <<>>
    /\ pt_root = <<>> /\ pt_last = <<>>
    /\ KernelOff
    /\ AppsOff /\ PairOff

NextAlloc ==
    \E h \in Harts :
        \/ AllocStart(h)
        \/ AllocLoad(h)
        \/ AllocCas(h)
        \/ AllocReturn(h)
        \/ AllocNone(h)
        \/ Dealloc(h)

SpecAlloc == InitAlloc /\ [][NextAlloc]_vars

(***************************************************************************)
(* C1                                                                      *)
(***************************************************************************)
\* the frames a hart has claimed: returned to it, or its CAS has succeeded
Claimed(h) ==
    held[h] \cup (IF hart[h].pc = "ret" THEN {start_ppn + hart[h].idx} ELSE {})

\* C1: under every interleaving of alloc() and dealloc() of two or more harts,
\* no frame is claimed by two harts at once, and every claimed frame has its
\* bitmap bit set (the bit that hart flipped from 0 to 1).
C1_NoDoubleAlloc ==
    /\ \A h1, h2 \in Harts : h1 # h2 => Claimed(h1) \cap Claimed(h2) = {}
    /\ \A h \in Harts : \A p \in Claimed(h) : bitmap[p - start_ppn]

\* C1 witness: both harts hold a frame, and one of them is about to run a
\* compare_exchange whose snapshot the other hart has made stale.
C1_Witness ==
    \E h1, h2 \in Harts :
        /\ h1 # h2
        /\ held[h1] # {} /\ held[h2] # {}
        /\ hart[h1].pc = "cas"
        /\ hart[h1].old_val # WordVal(bitmap, bitmap_idx(hart[h1].idx), total_frames)

(***************************************************************************)
(* Sequential use of the allocator (one hart: the kernel as it runs)       *)
(***************************************************************************)
\* A physical-memory state P is a record [bitmap, next, ptmem, data].
ZeroTable == [i \in 0 .. Fanout - 1 |-> 0]
ZeroPage == [i \in 0 .. PageBytes - 1 |-> 0]

\* the index alloc() settles on: the first free bit at or after the cursor,
\* cyclically; None when every bit is set
alloc_idx(P) ==
    LET cand == {o \in 0 .. total_frames - 1 : ~P.bitmap[(P.next + o) % total_frames]}
    IN  IF cand = {} THEN None
        ELSE (P.next + (CHOOSE o \in cand : \A o2 \in cand : o <= o2)) % total_frames

\* alloc(): sets the bit, moves the cursor, zeroes the frame
alloc(P) ==
    With(alloc_idx(P), LAMBDA idx :
        IF idx = None
        THEN [P |-> P, ppn |-> None]
        ELSE [P |-> [P EXCEPT !.bitmap[idx] = TRUE,
                              !.next = (idx + 1) % total_frames,
                              !.ptmem[start_ppn + idx] = ZeroTable,
                              !.data[start_ppn + idx] = ZeroPage],
              ppn |-> start_ppn + idx])

\* FRAME_ALLOCATOR.dealloc(ppn)
frame_dealloc(P, ppn) == [P EXCEPT !.bitmap = dealloc(P.bitmap, ppn, total_frames)]

(***************************************************************************)
(* Page table (mm/page_table.rs, mm/memory_layout.rs)                      *)
(***************************************************************************)
FlagNames == {"V", "R", "W", "X", "U"}
FlagBit(f) == CASE f = "V" -> 1 [] f = "R" -> 2 [] f = "W" -> 4 [] f = "X" -> 8 [] f = "U" -> 16

RECURSIVE FlagsBits(_)
\* PTEFlags::bits()
FlagsBits(fs) ==
    IF fs = {} THEN 0
    ELSE LET f == CHOOSE x \in fs : TRUE IN FlagBit(f) + FlagsBits(fs \ {f})

\* PageTableEntry::new_with_ppn: (ppn << 10) | flags
new_with_ppn(ppn, fs) == ppn * 1024 + FlagsBits(fs)
\* PageTableEntry::ppn: bits >> 10 (the 44-bit mask keeps every PPN of the model)
pte_ppn(e) == e \div 1024
\* PageTableEntry::flags: bits & 0xFF
pte_flags(e) == {f \in FlagNames : ((e % 256) \div FlagBit(f)) % 2 = 1}
is_valid(e) == "V" \in pte_flags(e)
is_leaf(e) == pte_flags(e) \cap {"R", "W", "X"} # {}

\* the VPNs whose three indexes differ: Fanout^3; a VirtPageNum has more bits
VpnSlots == Fanout * Fanout * Fanout
VpnLimit == 2 * VpnSlots
\* VirtPageNum::indexes: [(vpn >> 18) & 0x1FF, (vpn >> 9) & 0x1FF, vpn & 0x1FF]
indexes(vpn) ==
    <<(vpn \div (Fanout * Fanout)) % Fanout, (vpn \div Fanout) % Fanout, vpn % Fanout>>

NoneT == [some |-> FALSE, ppn |-> 0, flags |-> {}]
SomeT(e) == [some |-> TRUE, ppn |-> pte_ppn(e), flags |-> pte_flags(e)]

\* PageTable::translate
translate(P, root, vpn) ==
    LET ix == indexes(vpn)
        e2 == root[ix[1]]
    IN  IF ~is_valid(e2) THEN NoneT
        ELSE IF is_leaf(e2) THEN SomeT(e2)
        ELSE LET e1 == P.ptmem[pte_ppn(e2)][ix[2]]
             IN  IF ~is_valid(e1) THEN NoneT
                 ELSE IF is_leaf(e1) THEN SomeT(e1)
                 ELSE LET e0 == P.ptmem[pte_ppn(e1)][ix[3]]
                      IN  IF is_valid(e0) THEN SomeT(e0) ELSE NoneT

\* the flags a leaf is written with
LeafFlags_NoValid(fs) == fs
LeafFlags(fs) == fs \cup {"V"}

\* one level of the walk in map(): the entry to follow, a table being
\* allocated for it where it is not valid
branch(P, e) ==
    IF is_valid(e) THEN [P |-> P, pte |-> e, oom |-> FALSE]
    ELSE With(alloc(P), LAMBDA a :
             IF a.ppn = None THEN [P |-> P, pte |-> e, oom |-> TRUE]
             ELSE [P |-> a.P, pte |-> new_with_ppn(a.ppn, {"V"}), oom |-> FALSE])

\* the last step of map(): the leaf entry in table t0
map_leaf_Overwrites(P, root, t0, i0, ppn, fs) ==
    [P |-> [P EXCEPT !.ptmem[t0][i0] = new_with_ppn(ppn, LeafFlags(fs))],
     root |-> root, err |-> "ok"]
map_leaf(P, root, t0, i0, ppn, fs) ==
    IF is_valid(P.ptmem[t0][i0])
    THEN [P |-> P, root |-> root, err |-> "Page already mapped"]
    ELSE [P |-> [P EXCEPT !.ptmem[t0][i0] = new_with_ppn(ppn, LeafFlags(fs))],
          root |-> root, err |-> "ok"]

\* PageTable::map; err is "ok" or the reason of the Err
map(P, root, vpn, ppn, fs) ==
    LET ix == indexes(vpn)
    IN  With(branch(P, root[ix[1]]), LAMBDA b2 :
        LET root2 == [root EXCEPT ![ix[1]] = b2.pte]
            t1 == pte_ppn(b2.pte)
        IN  IF b2.oom THEN [P |-> P, root |-> root, err |-> "Out of memory"]
            ELSE IF is_leaf(b2.pte)
            THEN [P |-> b2.P, root |-> root2,
                  err |-> "Encountered leaf PTE in intermediate level"]
            ELSE With(branch(b2.P, b2.P.ptmem[t1][ix[2]]), LAMBDA b1 :
                 IF b1.oom THEN [P |-> b2.P, root |-> root2, err |-> "Out of memory"]
                 ELSE IF is_leaf(b1.pte)
                 THEN [P |-> [b1.P EXCEPT !.ptmem[t1][ix[2]] = b1.pte], root |-> root2,
                       err |-> "Encountered leaf PTE in intermediate level"]
                 ELSE map_leaf([b1.P EXCEPT !.ptmem[t1][ix[2]] = b1.pte], root2,
                               pte_ppn(b1.pte), ix[3], ppn, fs)))

\* PageTable::unmap; ppn is the PPN of the cleared leaf
unmap(P, root, vpn) ==
    LET ix == indexes(vpn)
        e2 == root[ix[1]]
        fail(why) == [P |-> P, root |-> root, err |-> why, ppn |-> None]
    IN  IF ~is_valid(e2) THEN fail("Page not mapped")
        ELSE IF is_leaf(e2) THEN fail("Encountered leaf PTE in intermediate level")
        ELSE LET e1 == P.ptmem[pte_ppn(e2)][ix[2]]
             IN  IF ~is_valid(e1) THEN fail("Page not mapped")
                 ELSE IF is_leaf(e1) THEN fail("Encountered leaf PTE in intermediate level")
                 ELSE LET t0 == pte_ppn(e1)
                          e0 == P.ptmem[t0][ix[3]]
                      IN  IF ~is_valid(e0) THEN fail("Page not mapped")
                          ELSE [P |-> [P EXCEPT !.ptmem[t0][ix[3]] = 0],
                                root |-> root, err |-> "ok", ppn |-> pte_ppn(e0)]

RECURSIVE dealloc_tables(_, _, _)
\* dealloc_intermediate_tables on the table stored in frame t: every valid
\* non-leaf entry is followed, its sub-table torn down and its frame freed,
\* in index order; then the table is cleared
dealloc_tables(P, t, i) ==
    IF i >= Fanout THEN [P EXCEPT !.ptmem[t] = ZeroTable]
    ELSE LET e == P.ptmem[t][i]
         IN  IF is_valid(e) /\ ~is_leaf(e)
             THEN With(dealloc_tables(P, pte_ppn(e), 0), LAMBDA P1 :
                      dealloc_tables(frame_dealloc(P1, pte_ppn(e)), t, i + 1))
             ELSE dealloc_tables(P, t, i + 1)

RECURSIVE dealloc_root(_, _, _)
\* dealloc_intermediate_tables on a root table (which lives in its MemorySet)
dealloc_root(P, root, i) ==
    IF i >= Fanout THEN P
    ELSE LET e == root[i]
         IN  IF is_valid(e) /\ ~is_leaf(e)
             THEN With(dealloc_tables(P, pte_ppn(e), 0), LAMBDA P1 :
                      With(frame_dealloc(P1, pte_ppn(e)), LAMBDA P2 :
                          dealloc_root(P2, root, i + 1)))
             ELSE dealloc_root(P, root, i + 1)

(***************************************************************************)
(* The page table on its own: map / unmap / translate                      *)
(***************************************************************************)
\* the physical-memory state the sequential operators work on
Phys == [bitmap |-> bitmap, next |-> next, ptmem |-> ptmem, data |-> data]
SetPhys(P) ==
    /\ bitmap' = P.bitmap
    /\ next' = P.next
    /\ ptmem' = P.ptmem
    /\ data' = P.data

FrameRange(n) == start_ppn .. start_ppn + n - 1
\* leaf frames handed to map(): frames outside the ones the tables come from
LeafArgs ==
    {<<start_ppn + PtFrames, {"R"}>>, <<start_ppn + PtFrames + 1, {"R", "W", "U"}>>}
\* the pages map() and unmap() are called on: neighbours in one leaf table,
\* pages in different tables, and two pairs that differ only above the index bits
PtVpns == {0, 1, Fanout, VpnSlots - 1, VpnSlots, VpnLimit - 1}
AllVpns == 0 .. VpnLimit - 1

InitPT ==
    /\ total_frames = PtFrames
    /\ bitmap = [i \in 0 .. PtFrames - 1 |-> FALSE]
    /\ next = 0
    /\ ptmem = [p \in FrameRange(PtFrames) |-> ZeroTable]
    /\ data = [p \in FrameRange(PtFrames) |-> ZeroPage]
    /\ pt_root = ZeroTable
    /\ pt_last = [op |-> "none", vpn |-> 0, ppn |-> 0, flags |-> {}, err |-> "ok",
                  P |-> Phys, root |-> pt_root]
    /\ hart = [h \in Harts |-> IdleHart]
    /\ held = [h \in Harts |-> {}]
    /\ calls = 0
    /\ KernelOff
    /\ AppsOff /\ PairOff

\* page_table.map(vpn, ppn, flags)
PtMap(vpn, ppn, fs) ==
    LET r == map(Phys, pt_root, vpn, ppn, fs)
    IN  /\ SetPhys(r.P)
        /\ pt_root' = r.root
        /\ pt_last' = [op |-> "map", vpn |-> vpn, ppn |-> ppn, flags |-> fs, err |-> r.err,
                       P |-> Phys, root |-> pt_root]
        /\ UNCHANGED restOfPT

\* page_table.unmap(vpn)
PtUnmap(vpn) ==
    LET r == unmap(Phys, pt_root, vpn)
    IN  /\ SetPhys(r.P)
        /\ pt_root' = r.root
        /\ pt_last' = [op |-> "unmap", vpn |-> vpn, ppn |-> r.ppn, flags |-> {},
                       err |-> r.err, P |-> Phys, root |-> pt_root]
        /\ UNCHANGED restOfPT

NextPT ==
    \/ \E vpn \in PtVpns, a \in LeafArgs : PtMap(vpn, a[1], a[2])
    \/ \E vpn \in PtVpns : PtUnmap(vpn)

SpecPT == InitPT /\ [][NextPT]_vars

\* map() on page tables that may hold a leaf in a root (L2) slot or in a
\* slot of an L1 table: the root's last slot is a leaf, and/or the root's
\* first slot leads to a table whose last slot is a leaf
HugeLeaf == new_with_ppn(start_ppn + PtFrames + 1, {"V", "R", "X"})
HugeVpnL2 == VpnSlots - 1
HugeVpnL1 == Fanout * (Fanout - 1)
MapErrVpns == PtVpns \cup {HugeVpnL2, HugeVpnL1}

InitMapErr ==
    /\ total_frames = PtFrames
    /\ \E l2 \in BOOLEAN, l1 \in BOOLEAN :
        /\ bitmap = [i \in 0 .. PtFrames - 1 |-> l1 /\ i = 0]
        /\ next = IF l1 THEN 1 ELSE 0
        /\ ptmem = [p \in FrameRange(PtFrames) |->
                       IF l1 /\ p = start_ppn
                       THEN [ZeroTable EXCEPT ![Fanout - 1] = HugeLeaf]
                       ELSE ZeroTable]
        /\ pt_root = [i \in 0 .. Fanout - 1 |->
                         IF l2 /\ i = Fanout - 1 THEN HugeLeaf
                         ELSE IF l1 /\ i = 0 THEN new_with_ppn(start_ppn, {"V"})
                         ELSE 0]
    /\ data = [p \in FrameRange(PtFrames) |-> ZeroPage]
    /\ pt_last = [op |-> "none", vpn |-> 0, ppn |-> 0, flags |-> {}, err |-> "ok",
                  P |-> Phys, root |-> pt_root]
    /\ hart = [h \in Harts |-> IdleHart]
    /\ held = [h \in Harts |-> {}]
    /\ calls = 0
    /\ KernelOff
    /\ AppsOff /\ PairOff

NextMapErr ==
    \/ \E vpn \in MapErrVpns, a \in LeafArgs : PtMap(vpn, a[1], a[2])
    \/ \E vpn \in MapErrVpns : PtUnmap(vpn)

SpecMapErr == InitMapErr /\ [][NextMapErr]_vars

PtOk == pt_last.op \in {"map", "unmap"} /\ pt_last.err = "ok"
\* translate(w) as it was before the last operation
TranslateBefore(w) == translate(pt_last.P, pt_last.root, w)

\* C4: after a successful map(vpn, ppn, flags) translate(vpn) is
\* Some((ppn, flags|V)); after a successful unmap(vpn) translate(vpn) is None;
\* and the operation leaves translate(w) as it was for every vpn w whose
\* three page-table indexes are not all those of vpn.
C4_RoundTrip ==
    /\ (pt_last.op = "map" /\ pt_last.err = "ok")
           => translate(Phys, pt_root, pt_last.vpn)
                  = [some |-> TRUE, ppn |-> pt_last.ppn, flags |-> pt_last.flags \cup {"V"}]
    /\ (pt_last.op = "unmap" /\ pt_last.err = "ok")
           => translate(Phys, pt_root, pt_last.vpn) = NoneT
    /\ PtOk => \A w \in AllVpns :
                   indexes(w) # indexes(pt_last.vpn)
                       => translate(Phys, pt_root, w) = TranslateBefore(w)

\* a page was unmapped that had been mapped, while another page stays mapped
C4_Witness ==
    /\ pt_last.op = "unmap" /\ pt_last.err = "ok"
    /\ TranslateBefore(pt_last.vpn).some
    /\ \E w \in AllVpns : indexes(w) # indexes(pt_last.vpn) /\ translate(Phys, pt_root, w).some

\* C4 as stated: neither operation changes translate(w) for any other vpn w
C4_AnyOtherVpn ==
    PtOk => \A w \in AllVpns :
                w # pt_last.vpn => translate(Phys, pt_root, w) = TranslateBefore(w)


(***************************************************************************)
(* Address spaces (mm/memory_set.rs)                                       *)
(***************************************************************************)
\* PAGE_SIZE is PageBytes; addresses are byte addresses, as in the source.
page_number(va) == va \div PageBytes
page_offset(va) == va % PageBytes
align_up(va) == ((va + PageBytes - 1) \div PageBytes) * PageBytes
align_down(va) == (va \div PageBytes) * PageBytes

\* usize::MAX - PAGE_SIZE + 1: the last page of the address space
TRAMPOLINE == VpnLimit * PageBytes - PageBytes
TRAP_CONTEXT == TRAMPOLINE - PageBytes
\* the layout below the top, scaled to the small address space
USER_STACK_BOTTOM == 2 * PageBytes
USER_STACK_SIZE == PageBytes
USER_STACK_TOP == USER_STACK_BOTTOM + USER_STACK_SIZE
MMAP_START == 4 * PageBytes
\* config: the size of a kernel stack, scaled to one page
KERNEL_STACK_SIZE == PageBytes
\* config: the number of slots of the task table
MAX_APP_NUM == NumSlots
\* new_kernel: the number of kernel stacks the region has room for
MAX_KERNEL_STACKS == MAX_APP_NUM
\* new_kernel: MAX_KERNEL_STACKS * (KERNEL_STACK_SIZE + PAGE_SIZE)
kernel_stack_region_size == MAX_KERNEL_STACKS * (KERNEL_STACK_SIZE + PageBytes)
\* kernel_stack_position: the kernel stack of the task with index app_id
kernel_stack_position(app_id) ==
    LET top == TRAP_CONTEXT - PageBytes - app_id * (KERNEL_STACK_SIZE + PageBytes)
    IN  [bottom |-> top - KERNEL_STACK_SIZE, top |-> top]
\* the page of code at __alltraps
TrampolineCode == [i \in 0 .. PageBytes - 1 |-> 9]

NoPanic == ""
NoData == [some |-> FALSE, bytes |-> <<>>]
SomeData(bytes) == [some |-> TRUE, bytes |-> bytes]
EmptyFrames == [v \in {} |-> 0]

\* MapArea::new
MapArea_new(start_va, end_va, map_type, map_perm) ==
    [start |-> page_number(start_va), end |-> page_number(end_va),
     data_frames |-> EmptyFrames, map_type |-> map_type, map_perm |-> map_perm]

\* A mapping step works on S = [P, root, area, panic]: physical memory, the
\* root table of the set, the area being (un)mapped, and the panic message.

\* map_one's `match self.map_type`: the frame the page is to be backed with
frame_for(S, vpn) ==
    IF S.area.map_type = "Identical" THEN [S |-> S, ppn |-> vpn]
    ELSE IF vpn \in DOMAIN S.area.data_frames
    THEN [S |-> S, ppn |-> S.area.data_frames[vpn]]
    ELSE With(alloc(S.P), LAMBDA a :
             IF a.ppn = None
             THEN [S |-> [S EXCEPT !.panic = "Failed to allocate frame"], ppn |-> None]
             ELSE [S |-> [S EXCEPT !.P = a.P,
                                   !.area.data_frames = (vpn :> a.ppn) @@ @],
                   ppn |-> a.ppn])

\* map_one, the page is already mapped to (t.ppn, t.flags): done when the
\* mapping is the expected one or the kernel panics, else the old entry goes.
\* existing_flags carries V, the area's permission bits do not.
replace_existing(S, vpn, t) ==
    With(frame_for(S, vpn), LAMBDA f :
        IF f.S.panic # NoPanic THEN [S |-> f.S, done |-> TRUE]
        ELSE IF f.ppn = t.ppn /\ FlagsBits(t.flags) = FlagsBits(S.area.map_perm)
        THEN [S |-> f.S, done |-> TRUE]
        ELSE With(unmap(f.S.P, f.S.root, vpn), LAMBDA u :
                 IF u.err # "ok"
                 THEN [S |-> [f.S EXCEPT !.panic = "Failed to unmap conflicting page"],
                       done |-> TRUE]
                 ELSE [S |-> [f.S EXCEPT !.P = u.P, !.root = u.root], done |-> FALSE]))

\* map_one, the page is not mapped (any more)
map_fresh(S, vpn) ==
    With(frame_for(S, vpn), LAMBDA f :
        IF f.S.panic # NoPanic THEN f.S
        ELSE With(map(f.S.P, f.S.root, vpn, f.ppn, S.area.map_perm), LAMBDA m :
                 IF m.err # "ok"
                 THEN [f.S EXCEPT !.P = m.P, !.root = m.root, !.panic = "Failed to map page"]
                 ELSE [f.S EXCEPT !.P = m.P, !.root = m.root]))

\* MapArea::map_one
map_one(S, vpn) ==
    IF S.panic # NoPanic THEN S
    ELSE With(translate(S.P, S.root, vpn), LAMBDA t :
             IF ~t.some THEN map_fresh(S, vpn)
             ELSE With(replace_existing(S, vpn, t), LAMBDA r :
                      IF r.done THEN r.S ELSE map_fresh(r.S, vpn)))

\* MapArea::unmap_one: the FrameTracker is dropped first, then the PTE goes
unmap_one(S, vpn) ==
    LET has == S.area.map_type = "Framed" /\ vpn \in DOMAIN S.area.data_frames
        P1 == IF has THEN frame_dealloc(S.P, S.area.data_frames[vpn]) ELSE S.P
        fr == IF has
              THEN [v \in DOMAIN S.area.data_frames \ {vpn} |-> S.area.data_frames[v]]
              ELSE S.area.data_frames
    IN  IF S.panic # NoPanic THEN S
        ELSE With(unmap(P1, S.root, vpn), LAMBDA u :
                 IF u.err # "ok"
                 THEN [S EXCEPT !.P = P1, !.area.data_frames = fr,
                                !.panic = "Failed to unmap page"]
                 ELSE [S EXCEPT !.P = u.P, !.root = u.root, !.area.data_frames = fr])

RECURSIVE area_map(_, _)
\* MapArea::map: map_one for every vpn of the range, from vpn on
area_map(S, vpn) ==
    IF vpn >= S.area.end THEN S
    ELSE With(map_one(S, vpn), LAMBDA S1 : area_map(S1, vpn + 1))

RECURSIVE area_unmap(_, _)
\* MapArea::unmap
area_unmap(S, vpn) ==
    IF vpn >= S.area.end THEN S
    ELSE With(unmap_one(S, vpn), LAMBDA S1 : area_unmap(S1, vpn + 1))

\* copy_data's copy_nonoverlapping(src, dst, src.len()): src goes to the
\* start of the frame
write_page(P, ppn, src) ==
    [P EXCEPT !.data[ppn] =
         [i \in 0 .. PageBytes - 1 |-> IF i < Len(src) THEN src[i + 1] ELSE @[i]]]

RECURSIVE copy_data(_, _, _, _)
\* MapArea::copy_data: page by page from the first page of the range
copy_data(S, bytes, start, current_vpn) ==
    LET len == Len(bytes)
        src == SubSeq(bytes, start + 1, Min(len, start + PageBytes))
    IN  IF S.panic # NoPanic THEN S
        ELSE With(translate(S.P, S.root, current_vpn), LAMBDA t :
                 IF ~t.some THEN [S EXCEPT !.panic = "Page not mapped in copy_data"]
                 ELSE With([S EXCEPT !.P = write_page(S.P, t.ppn, src)], LAMBDA S1 :
                          IF start + PageBytes >= len THEN S1
                          ELSE copy_data(S1, bytes, start + PageBytes, current_vpn + 1)))

\* A memory-set step works on M = [P, ms, panic], ms = [root, areas].
new_bare(P) == [P |-> P, ms |-> [root |-> ZeroTable, areas |-> <<>>], panic |-> NoPanic]

\* MemorySet::push
push(M, map_area, d) ==
    IF M.panic # NoPanic THEN M
    ELSE With(area_map([P |-> M.P, root |-> M.ms.root, area |-> map_area,
                        panic |-> NoPanic], map_area.start),
              LAMBDA S1 :
         With(IF d.some THEN copy_data(S1, d.bytes, 0, map_area.start) ELSE S1,
              LAMBDA S2 :
         [P |-> S2.P,
          ms |-> [root |-> S2.root, areas |-> Append(M.ms.areas, S2.area)],
          panic |-> S2.panic]))

\* MemorySet::remove_area
remove_area(M, area_index) ==
    LET n == Len(M.ms.areas)
    IN  IF M.panic # NoPanic \/ area_index > n THEN M
        ELSE With(area_unmap([P |-> M.P, root |-> M.ms.root,
                              area |-> M.ms.areas[area_index], panic |-> NoPanic],
                             M.ms.areas[area_index].start),
                  LAMBDA S :
             [P |-> S.P,
              ms |-> [root |-> S.root,
                      areas |-> SubSeq(M.ms.areas, 1, area_index - 1)
                                    \o SubSeq(M.ms.areas, area_index + 1, n)],
              panic |-> S.panic])

RECURSIVE clear_areas(_)
\* MemorySet::clear_areas: the areas are popped from the back
clear_areas(M) ==
    IF M.panic # NoPanic \/ M.ms.areas = <<>> THEN M
    ELSE With(remove_area(M, Len(M.ms.areas)), LAMBDA M1 : clear_areas(M1))

\* impl Drop for MemorySet
drop_memory_set(M) ==
    With(clear_areas(M), LAMBDA C :
        IF C.panic # NoPanic THEN C
        ELSE [C EXCEPT !.P = dealloc_root(C.P, C.ms.root, 0), !.ms.root = ZeroTable])

\* the trampoline block of new_kernel and from_elf: a frame is allocated,
\* mapped V|R|X at TRAMPOLINE and filled with the code at __alltraps
map_trampoline(M) ==
    IF M.panic # NoPanic THEN M
    ELSE With(alloc(M.P), LAMBDA a :
         IF a.ppn = None
         THEN [M EXCEPT !.panic = "Failed to allocate frame for trampoline"]
         ELSE With(map(a.P, M.ms.root, page_number(TRAMPOLINE), a.ppn, {"V", "R", "X"}),
                   LAMBDA m :
              IF m.err # "ok"
              THEN [M EXCEPT !.P = m.P, !.ms.root = m.root,
                             !.panic = "Failed to map TRAMPOLINE page"]
              ELSE [M EXCEPT !.P = [m.P EXCEPT !.data[a.ppn] = TrampolineCode],
                             !.ms.root = m.root]))

\* MemorySet::new_kernel.  The identity-mapped areas (kernel image, MMIO,
\* physical memory) hold no frames of their own and lie outside the small
\* address space; the framed areas and the trampoline are kept.
new_kernel(P) ==
    With(push(new_bare(P),
              MapArea_new(TRAP_CONTEXT - kernel_stack_region_size, TRAP_CONTEXT,
                          "Framed", {"R", "W"}),
              NoData),
         LAMBDA M1 :
    With(push(M1,
              MapArea_new(TRAP_CONTEXT, TRAP_CONTEXT + PageBytes, "Framed", {"R", "W"}),
              NoData),
         LAMBDA M2 : map_trampoline(M2)))

RECURSIVE load_segments(_, _, _)
\* the PT_LOAD loop of from_elf
load_segments(M, segs, i) ==
    IF i > Len(segs) THEN M
    ELSE LET ph == segs[i]
             start_va == ph.vaddr
             end_va == align_up(start_va + ph.mem_size)
             perm == {"U"} \cup ph.flags
         IN  With(push(M, MapArea_new(start_va, end_va, "Framed", perm),
                       SomeData(ph.bytes)),
                  LAMBDA M1 : load_segments(M1, segs, i + 1))

\* MemorySet::from_elf
from_elf(P, elf) ==
    With(map_trampoline(new_bare(P)), LAMBDA M1 :
    With(push(M1,
              MapArea_new(TRAP_CONTEXT, TRAP_CONTEXT + PageBytes, "Framed", {"R", "W"}),
              NoData),
         LAMBDA M2 :
    With(push(M2,
              MapArea_new(USER_STACK_BOTTOM, USER_STACK_TOP, "Framed", {"R", "W", "U"}),
              NoData),
         LAMBDA M3 : load_segments(M3, elf.segs, 1))))

(***************************************************************************)
(* Tasks and scheduling (task/*.rs, trap/mod.rs, syscall/*.rs)             *)
(***************************************************************************)
\* Scheduler::new: ticks per time slice
time_slice == 10

\* the embedded application images: PT_LOAD headers with their file bytes
Elfs ==
    << \* one segment, page-aligned, two pages
       [segs |-> << [vaddr |-> 0, mem_size |-> PageBytes + 1,
                     bytes |-> [i \in 1 .. PageBytes + 1 |-> i], flags |-> {"R", "X"}] >>,
        entry |-> PageBytes],
       \* one segment that starts inside a page and ends in the next
       [segs |-> << [vaddr |-> 1, mem_size |-> PageBytes,
                     bytes |-> [i \in 1 .. PageBytes |-> 10 + i], flags |-> {"R", "W"}] >>,
        entry |-> 1],
       \* text and data meeting in one page
       [segs |-> << [vaddr |-> 0, mem_size |-> 1, bytes |-> <<5>>, flags |-> {"R", "X"}],
                    [vaddr |-> 1, mem_size |-> 1, bytes |-> <<6>>, flags |-> {"R", "W"}] >>,
        entry |-> 0] >>
ElfIds == 1 .. Len(Elfs)

Slots == 0 .. NumSlots - 1
NoTask == [status |-> "Empty"]
IsTask(t) == t.status # "Empty"
\* TaskManager::task_count
task_count(ts) == Cardinality({i \in Slots : IsTask(ts[i])})

\* TaskManager::find_next_task
find_next_task_AnyLoaded(ts, start) == IF start + 1 < num_loaded THEN start + 1 ELSE 0
find_next_task(ts, start) ==
    LET hits == {i \in 0 .. NumSlots - 1 : ts[(start + i + 1) % NumSlots].status = "Ready"}
    IN  IF hits = {} THEN None
        ELSE (start + (CHOOSE i \in hits : \A j \in hits : i <= j) + 1) % NumSlots

\* Scheduler::schedule_next
schedule_next(current, ts) == find_next_task(ts, current)

\* Scheduler::tick: the new counter and whether the slice expired
tick_EveryTick(cts) == [cts |-> 0, expired |-> TRUE]
tick(cts) ==
    IF cts + 1 >= time_slice THEN [cts |-> 0, expired |-> TRUE]
    ELSE [cts |-> cts + 1, expired |-> FALSE]

\* TrapContext::app_init_context: the trap frame of a first entry
app_init_context(entry, user_sp) ==
    [sepc |-> entry, sp |-> user_sp, spp |-> "User", spie |-> TRUE]
\* the TrapContext read from a frame of zero bytes
ZeroTrapContext == [sepc |-> 0, sp |-> 0, spp |-> "User", spie |-> FALSE]
TrapContexts ==
    [sepc : {0, 1, PageBytes}, sp : {0, USER_STACK_TOP}, spp : {"User", "Supervisor"},
     spie : BOOLEAN]

\* TaskControlBlock::get_trap_cx: the frame trap_cx_ppn read as a TrapContext;
\* nothing is known of a frame that holds other bytes than zeros
get_trap_cx(P, task) ==
    IF P.data[task.trap_cx_ppn] = ZeroPage THEN {ZeroTrapContext} ELSE TrapContexts

\* switch_task: the running task goes back to Ready, the next one is chosen
\* (from slot 0 when nothing is running) and marked Running; path is the
\* branch that enters it: "switch" (trap frame copied from get_trap_cx, then
\* __switch) when a task was running, "first" (trap frame built by
\* app_init_context, then __restore) when none was
switch_task_KeepsRunning(ts, cur) ==
    LET next_pid == IF cur # None THEN schedule_next(cur, ts) ELSE schedule_next(0, ts)
    IN  IF next_pid = None
        THEN [tasks |-> ts, current |-> cur, next_pid |-> None, path |-> "none",
              first_entry |-> FALSE]
        ELSE [tasks |-> IF IsTask(ts[next_pid])
                        THEN [ts EXCEPT ![next_pid].status = "Running",
                                        ![next_pid].entered = TRUE]
                        ELSE [ts EXCEPT ![next_pid].status = "Running"],
              current |-> next_pid, next_pid |-> next_pid,
              path |-> IF cur # None /\ IsTask(ts[cur]) THEN "switch" ELSE "first",
              first_entry |-> IsTask(ts[next_pid]) /\ ~ts[next_pid].entered]
switch_task(ts, cur) ==
    LET ts1 == IF cur # None /\ IsTask(ts[cur]) THEN [ts EXCEPT ![cur].status = "Ready"]
               ELSE ts
        next_pid == IF cur # None THEN schedule_next(cur, ts1) ELSE schedule_next(0, ts1)
    IN  IF next_pid = None
        THEN [tasks |-> ts1, current |-> cur, next_pid |-> None, path |-> "none",
              first_entry |-> FALSE]
        ELSE [tasks |-> IF IsTask(ts1[next_pid])
                        THEN [ts1 EXCEPT ![next_pid].status = "Running",
                                         ![next_pid].entered = TRUE]
                        ELSE [ts1 EXCEPT ![next_pid].status = "Running"],
              current |-> next_pid, next_pid |-> next_pid,
              path |-> IF cur # None /\ IsTask(ts[cur]) THEN "switch" ELSE "first",
              first_entry |-> IsTask(ts[next_pid]) /\ ~ts[next_pid].entered]

\* the trap frame switch_task puts on the kernel stack of the task it enters
entry_frames(P, ts, sw) ==
    IF sw.next_pid = None \/ ~IsTask(ts[sw.next_pid]) THEN {<<>>}
    ELSE IF sw.path = "switch" THEN get_trap_cx(P, ts[sw.next_pid])
    ELSE {app_init_context(ts[sw.next_pid].entry_point, ts[sw.next_pid].user_sp)}

\* the size of usize on riscv64, in bytes
UsizeBytes == 8
\* config: KERNEL_STACK_SIZE, in bytes
KernelStackBytes == 4096 * 4
\* TrapContext, #[repr(C)]: x[32], sstatus, sepc, user_satp, kernel_sp
TrapContextWords == 32 + 1 + 1 + 1 + 1
size_of_TrapContext == TrapContextWords * UsizeBytes
\* switch_task: (kernel_sp - 34 * 8) as *mut TrapContext
trap_cx_offset == 34 * 8
\* *trap_cx_kernel = trap_cx_data: the bytes written, [lo, hi), as offsets
\* from the top of the kernel stack of the task entered
trap_cx_write ==
    [lo |-> 0 - trap_cx_offset, hi |-> 0 - trap_cx_offset + size_of_TrapContext]

\* history: the Ready queue once cur has gone back to Ready
ReadyWith(q, ts, cur) == IF cur # None /\ IsTask(ts[cur]) THEN Append(q, cur) ELSE q
ReadyHead(q) == IF q = <<>> THEN None ELSE Head(q)
ReadyWithout(q, pid) == SelectSeq(q, LAMBDA x : x # pid)

AllocatedSet(bm) == {start_ppn + i : i \in {j \in 0 .. total_frames - 1 : bm[j]}}
\* history: the frames in use on behalf of a task after an operation on it
OwnedAfter(owned, before, after) ==
    (owned \cup (AllocatedSet(after) \ AllocatedSet(before)))
        \ (AllocatedSet(before) \ AllocatedSet(after))

LastNone ==
    [op |-> "none", pid |-> None, prev |-> None, chosen |-> None, fifo_head |-> None,
     switched |-> FALSE, rearmed |-> FALSE, other_ready |-> FALSE, slice_before |-> 0,
     owned |-> {}, ret |-> 0, before |-> <<>>, args |-> <<>>, out |-> <<>>,
     slices |-> <<>>, msg |-> "", cause |-> "", spp |-> "",
     path |-> "", first_entry |-> FALSE, frame |-> <<>>, satp |-> <<>>,
     locks |-> <<>>, variant |-> "", route |-> "", passed |-> <<>>,
     returned |-> FALSE, cx_before |-> <<>>, cx_after |-> <<>>, after |-> <<>>,
     entry |-> <<>>, cx_write |-> <<>>]

\* the memory set of a kernel space that has not been built
NoSpace == [root |-> ZeroTable, areas |-> <<>>]

\* frame_allocator::init has run: every frame is free
\* the hart as the firmware hands it over: no supervisor interrupt enabled,
\* no timer programmed
IntrReset == [stimer |-> FALSE, sie |-> FALSE, timer |-> FALSE]

KernelStart(frames) ==
    /\ total_frames = frames
    /\ bitmap = [i \in 0 .. frames - 1 |-> FALSE]
    /\ next = 0
    /\ ptmem = [p \in FrameRange(frames) |-> ZeroTable]
    /\ data = [p \in FrameRange(frames) |-> ZeroPage]
    /\ KERNEL_SPACE_INTERNAL = NoSpace
    /\ KERNEL_SPACE = NoSpace
    /\ tasks = [i \in Slots |-> NoTask]
    /\ current_task = None
    /\ current_time_slice = 0
    /\ phase = "boot"
    /\ num_loaded = 0 /\ mem_calls = 0
    /\ intr = IntrReset
    /\ ready_q = <<>>
    /\ last = LastNone
    /\ hart = [h \in Harts |-> IdleHart]
    /\ held = [h \in Harts |-> {}]
    /\ calls = 0
    /\ pt_root = <<>> /\ pt_last = <<>>
    /\ AppsOff /\ PairOff

InitKernel == KernelStart(KernelFrames)
InitSched == KernelStart(SchedFrames)

Panic(P) ==
    /\ SetPhys(P)
    /\ phase' = "panic"

\* kernel_main up to load_apps: mm::init builds a kernel space, the first use
\* of task::KERNEL_SPACE builds another, task::init replaces that one, and
\* mm::test allocates and frees two frames
KernelInit ==
    /\ phase = "boot"
    /\ \E K1 \in {new_kernel(Phys)} :
       \E K2 \in {new_kernel(K1.P)} :
       \E K3 \in {new_kernel(K2.P)} :
       \E D2 \in {drop_memory_set([K2 EXCEPT !.P = K3.P])} :
       \E a1 \in {alloc(D2.P)} :
       \E a2 \in {alloc(a1.P)} :
           IF D2.panic # NoPanic \/ a2.ppn = None
           THEN /\ Panic(a2.P)
                /\ UNCHANGED <<KERNEL_SPACE_INTERNAL, KERNEL_SPACE>>
           ELSE /\ SetPhys(frame_dealloc(frame_dealloc(a2.P, a2.ppn), a1.ppn))
                /\ KERNEL_SPACE_INTERNAL' = K1.ms
                /\ KERNEL_SPACE' = K3.ms
                /\ phase' = "load"
    /\ last' = [LastNone EXCEPT !.op = "boot"]
    /\ UNCHANGED <<tasks, current_task, current_time_slice, num_loaded, mem_calls,
                   intr, ready_q, restOfKernel>>

\* TaskManager::add_task: the first empty slot
FreeSlot(ts) ==
    LET free == {i \in Slots : ~IsTask(ts[i])}
    IN  IF free = {} THEN None ELSE CHOOSE i \in free : \A j \in free : i <= j

\* load_apps, one application: TaskControlBlock::new then add_task
LoadApp(e, num_app) ==
    /\ phase = "load"
    /\ num_loaded < num_app
    /\ \E r \in {from_elf(Phys, Elfs[e])} :
       \E t \in {translate(r.P, r.ms.root, page_number(TRAP_CONTEXT))} :
       \E slot \in {FreeSlot(tasks)} :
           IF r.panic # NoPanic \/ ~t.some \/ slot = None
           THEN /\ Panic(r.P)
                /\ last' = [LastNone EXCEPT !.op = "load_panic"]
                /\ UNCHANGED <<tasks, ready_q, num_loaded>>
           ELSE /\ SetPhys(r.P)
                /\ tasks' = [tasks EXCEPT ![slot] =
                       [status |-> "Ready", memory_set |-> r.ms, trap_cx_ppn |-> t.ppn,
                        elf |-> e, owned |-> OwnedAfter({}, bitmap, r.P.bitmap),
                        entry_point |-> Elfs[e].entry, user_sp |-> USER_STACK_TOP,
                        entered |-> FALSE]]
                /\ ready_q' = Append(ready_q, slot)
                /\ num_loaded' = num_loaded + 1
                /\ last' = [LastNone EXCEPT !.op = "load", !.pid = slot]
                /\ UNCHANGED phase
    /\ UNCHANGED <<KERNEL_SPACE_INTERNAL, KERNEL_SPACE, intr, current_task, current_time_slice,
                   mem_calls, restOfKernel>>

\* MemorySet::token: the satp value that names the root table of an address
\* space (its root table stands for the root PPN here)
token(ms) == ms.root

\* what a handler does with the spinlocks, in program order
Acq(l) == <<"acquire", l>>
Rel(l) == <<"release", l>>
Jump(target) == <<"jump", target>>

\* switch_task: the lock operations of each branch, up to the jump that
\* leaves the function (or to its end, where the guards are dropped)
switch_task_locks_HeldAcrossSwitch(path) ==
    <<Acq("TASK_MANAGER"), Acq("SCHEDULER"), Acq("KERNEL_SPACE"), Rel("KERNEL_SPACE"),
      Acq("KERNEL_SPACE_INTERNAL"), Rel("KERNEL_SPACE_INTERNAL"),
      Jump(IF path = "switch" THEN "__switch" ELSE "__restore"),
      Rel("SCHEDULER"), Rel("TASK_MANAGER")>>
switch_task_locks(path) ==
    IF path = "switch"
    THEN <<Acq("TASK_MANAGER"), Acq("SCHEDULER"),
           Acq("KERNEL_SPACE"), Rel("KERNEL_SPACE"),
           Rel("TASK_MANAGER"), Rel("SCHEDULER"),
           Acq("KERNEL_SPACE_INTERNAL"), Rel("KERNEL_SPACE_INTERNAL"),
           Jump("__switch")>>
    ELSE IF path = "first"
    THEN <<Acq("TASK_MANAGER"), Acq("SCHEDULER"),
           Acq("KERNEL_SPACE"), Rel("KERNEL_SPACE"),
           Acq("KERNEL_SPACE"), Rel("KERNEL_SPACE"),
           Rel("TASK_MANAGER"), Rel("SCHEDULER"),
           Acq("KERNEL_SPACE_INTERNAL"), Rel("KERNEL_SPACE_INTERNAL"),
           Jump("__restore")>>
    ELSE <<Acq("TASK_MANAGER"), Acq("SCHEDULER"),
           Acq("KERNEL_SPACE"), Rel("KERNEL_SPACE"),
           Rel("SCHEDULER"), Rel("TASK_MANAGER"), Jump("__restore")>>

\* trap_handler, before the match: the user token is read from the task
\* table when the trap came from user mode
trap_entry_locks(is_user_mode) ==
    IF is_user_mode THEN <<Acq("TASK_MANAGER"), Rel("TASK_MANAGER")>> ELSE <<>>

\* switch_task and the interrupt state: the branch that enters a task with a
\* fresh trap frame clears sstatus.SIE and sie.STIE and sets the timer
\* before it jumps to __restore; the other branches touch none of them
switch_intr(i, path) ==
    IF path = "first" THEN [stimer |-> FALSE, sie |-> FALSE, timer |-> TRUE] ELSE i

\* the state changes of one call of switch_task, recorded as operation op
DoSwitch(ts, cur, op, rec) ==
    \E sw \in {switch_task(ts, cur)} :
    \E q1 \in {ReadyWith(ready_q, ts, cur)} :
    \E cx \in entry_frames(Phys, ts, sw) :
        /\ tasks' = sw.tasks
        /\ current_task' = sw.current
        /\ intr' = switch_intr(intr, sw.path)
        /\ ready_q' = ReadyWithout(q1, sw.next_pid)
        /\ last' = [rec EXCEPT !.op = op, !.prev = cur, !.chosen = sw.next_pid,
                               !.fifo_head = ReadyHead(q1), !.switched = TRUE,
                               !.path = sw.path, !.first_entry = sw.first_entry,
                               !.frame = IF sw.first_entry THEN cx ELSE <<>>,
                               !.entry = cx,
                               !.cx_write = trap_cx_write,
                               !.satp = token(KERNEL_SPACE),
                               !.locks = rec.locks \o switch_task_locks(sw.path)]

\* run_first_task: one of the loaded tasks is entered; which one is left open
RunFirstTask ==
    /\ phase = "load"
    /\ num_loaded > 0
    /\ phase' = "run"
    /\ \E first \in {i \in Slots : tasks[i].status = "Ready"} :
           /\ tasks' = [tasks EXCEPT ![first].status = "Running",
                                     ![first].entered = TRUE]
           /\ current_task' = first
           /\ intr' = [stimer |-> TRUE, sie |-> FALSE, timer |-> TRUE]
           /\ ready_q' = ReadyWithout(ready_q, first)
           /\ last' = [LastNone EXCEPT !.op = "first", !.chosen = first,
                                       !.fifo_head = ReadyHead(ready_q),
                                       !.switched = TRUE, !.path = "first",
                                       !.first_entry = TRUE,
                                       !.frame = app_init_context(tasks[first].entry_point,
                                                                  tasks[first].user_sp)]
    /\ UNCHANGED <<KERNEL_SPACE_INTERNAL, KERNEL_SPACE, current_time_slice, num_loaded,
                   mem_calls, allocVars, physVars, hartVars, ptVars, appVars, alloc_last>>

UserMode == phase = "run" /\ current_task # None

\* trap_handler, SupervisorTimer arm: whether the tick counter is advanced
timer_ticks_AnyMode(is_user_mode, ts) == task_count(ts) > 0
timer_ticks(is_user_mode, ts) == is_user_mode /\ task_count(ts) > 0

\* trap_handler, SupervisorTimer arm: the task count is read under the task
\* table's lock, the tick is made under the scheduler's
timer_arm_locks(is_user_mode, ts) ==
    IF ~is_user_mode THEN <<>>
    ELSE <<Acq("TASK_MANAGER"), Rel("TASK_MANAGER")>>
             \o (IF task_count(ts) > 0 THEN <<Acq("SCHEDULER"), Rel("SCHEDULER")>>
                  ELSE <<>>)

\* trap_handler, SupervisorTimer arm, for a trap whose saved SPP is User
\* (is_user_mode) or Supervisor
TimerTrap(is_user_mode, op) ==
    /\ LET tk == tick(current_time_slice)
           ticks == timer_ticks(is_user_mode, tasks)
           rec == [LastNone EXCEPT !.rearmed = TRUE, !.pid = current_task,
                       !.slice_before = current_time_slice,
                       !.other_ready = \E i \in Slots : tasks[i].status = "Ready",
                       !.before = IF is_user_mode THEN <<>> ELSE <<tasks>>,
                       !.spp = IF is_user_mode THEN "User" ELSE "Supervisor",
                       !.locks = trap_entry_locks(is_user_mode)
                                     \o timer_arm_locks(is_user_mode, tasks)]
       IN  /\ current_time_slice' = IF ticks THEN tk.cts ELSE current_time_slice
           /\ IF ticks /\ tk.expired
              THEN DoSwitch(tasks, current_task, op, rec)
              ELSE /\ last' = [rec EXCEPT !.op = op, !.prev = current_task,
                                          !.locks = rec.locks \o <<Jump("__restore")>>]
                   /\ UNCHANGED <<tasks, current_task, ready_q, intr>>
    /\ UNCHANGED <<KERNEL_SPACE_INTERNAL, KERNEL_SPACE, phase, num_loaded, mem_calls,
                   allocVars, physVars, hartVars, ptVars, appVars, alloc_last>>

\* the supervisor timer interrupt can be taken: it is enabled in sie and a
\* timer has been set
TimerPending == intr.stimer /\ intr.timer

\* a timer interrupt taken while a user task runs
TimerTick == UserMode /\ TimerPending /\ TimerTrap(TRUE, "timer")

\* a timer interrupt taken while the kernel runs (applications being loaded,
\* or a handler at work on behalf of the current task)
KernelTimer == phase \in {"load", "run"} /\ TimerPending /\ TimerTrap(FALSE, "ktimer")

\* exit_current_and_run_next(-1), called by trap_handler for a trap taken
\* from user mode; rec0 is what the handler has recorded so far
exit_current_and_run_next(rec0) ==
    /\ UserMode
    /\ \E pid \in {current_task} :
       \E d \in {drop_memory_set([P |-> Phys, ms |-> tasks[pid].memory_set,
                                   panic |-> NoPanic])} :
       \E ts1 \in {[tasks EXCEPT ![pid] = NoTask]} :
       \E rec \in {[rec0 EXCEPT !.pid = pid, !.owned = tasks[pid].owned,
                                !.before = <<tasks>>,
                                !.locks = rec0.locks \o <<Acq("TASK_MANAGER")>>]} :
       \E rec1 \in {[rec EXCEPT !.locks = rec.locks \o <<Rel("TASK_MANAGER")>>]} :
           IF d.panic # NoPanic
           THEN /\ Panic(d.P)
                /\ tasks' = ts1
                /\ current_task' = None
                /\ last' = [rec EXCEPT !.op = "kill_panic"]
                /\ UNCHANGED <<ready_q, intr>>
           ELSE /\ SetPhys(d.P)
                /\ IF task_count(ts1) = 0
                   THEN /\ phase' = "shutdown"
                        /\ tasks' = ts1
                        /\ current_task' = None
                        /\ last' = [rec1 EXCEPT !.op = "kill"]
                        /\ intr' = [intr EXCEPT !.stimer = FALSE, !.sie = FALSE]
                        /\ UNCHANGED ready_q
                   ELSE /\ DoSwitch(ts1, None, "kill", rec1)
                        /\ UNCHANGED phase
    /\ UNCHANGED <<KERNEL_SPACE_INTERNAL, KERNEL_SPACE, current_time_slice, num_loaded,
                   mem_calls, restOfKernel>>

\* trap_handler, a fault from user mode
Fault == exit_current_and_run_next([LastNone EXCEPT !.locks = trap_entry_locks(TRUE)])

\* the causes of scause that trap_handler names in an arm of its match
StoreFaults == {"StoreFault", "StorePageFault"}
LoadFaults == {"LoadFault", "LoadPageFault"}
InstructionFaults == {"InstructionFault", "InstructionPageFault"}
\* exceptions that reach the default arm
OtherExceptions == {"Breakpoint", "LoadMisaligned"}
Exceptions ==
    StoreFaults \cup LoadFaults \cup InstructionFaults \cup {"IllegalInstruction"}
        \cup OtherExceptions

\* trap_handler, the match on scause.cause() for an exception other than
\* UserEnvCall: every arm kills the current task when the trap came from
\* user mode and shuts the machine down when it came from supervisor mode
trap_arm(cause, is_user_mode) == IF is_user_mode THEN "kill" ELSE "shutdown"

\* trap_handler, the locks an exception arm takes before it kills the task
\* or shuts down: the instruction-fault arms look the task up to print its
\* mapping, the kernel-mode store-fault arm looks the address up in the
\* kernel space
arm_locks(cause, is_user_mode) ==
    IF is_user_mode /\ cause = "InstructionFault"
    THEN <<Acq("TASK_MANAGER"), Rel("TASK_MANAGER"),
           Acq("TASK_MANAGER"), Rel("TASK_MANAGER")>>
    ELSE IF is_user_mode /\ cause = "InstructionPageFault"
    THEN <<Acq("TASK_MANAGER"), Rel("TASK_MANAGER")>>
    ELSE IF ~is_user_mode /\ cause \in StoreFaults
    THEN <<Acq("KERNEL_SPACE_INTERNAL"), Rel("KERNEL_SPACE_INTERNAL")>>
    ELSE <<>>

\* trap_handler for an exception, taken from user mode or from the kernel
Trap(cause, is_user_mode) ==
    \E rec \in {[LastNone EXCEPT !.cause = cause,
                     !.spp = IF is_user_mode THEN "User" ELSE "Supervisor",
                     !.locks = trap_entry_locks(is_user_mode)
                                   \o arm_locks(cause, is_user_mode)]} :
        IF trap_arm(cause, is_user_mode) = "kill"
        THEN exit_current_and_run_next(rec)
        ELSE /\ phase \in {"load", "run"}
             /\ phase' = "shutdown"
             /\ last' = [rec EXCEPT !.op = "trap_shutdown", !.pid = current_task]
             /\ UNCHANGED <<KERNEL_SPACE_INTERNAL, KERNEL_SPACE, intr, tasks, current_task,
                            current_time_slice, num_loaded, mem_calls, ready_q,
                            allocVars, physVars, hartVars, ptVars, appVars, alloc_last>>

\* sys_exit: the machine is shut down
SysExit ==
    /\ UserMode
    /\ phase' = "shutdown"
    /\ last' = [LastNone EXCEPT !.op = "exit", !.pid = current_task]
    /\ UNCHANGED <<KERNEL_SPACE_INTERNAL, KERNEL_SPACE, intr, tasks, current_task,
                   current_time_slice, num_loaded, mem_calls, ready_q,
                   allocVars, physVars, hartVars, ptVars, appVars, alloc_last>>

\* sys_yield: returns 0
SysYield ==
    /\ UserMode
    /\ last' = [LastNone EXCEPT !.op = "yield", !.pid = current_task]
    /\ UNCHANGED <<KERNEL_SPACE_INTERNAL, KERNEL_SPACE, intr, tasks, current_task,
                   current_time_slice, phase, num_loaded, mem_calls, ready_q,
                   allocVars, physVars, hartVars, ptVars, appVars, alloc_last>>

\* translated_byte_buffer_readonly: the bytes taken from one page
bytes_in_page_WholePage(off, remaining) == PageBytes - off
bytes_in_page(off, remaining) == Min(PageBytes - off, remaining)

RECURSIVE translated_byte_buffer_readonly(_, _, _, _)
\* PageTable::translated_byte_buffer_readonly: the slices (frame, offset,
\* length) of the user buffer, up to the first page that is not mapped
translated_byte_buffer_readonly(P, root, current_va, remaining) ==
    IF remaining <= 0 THEN <<>>
    ELSE With(translate(P, root, page_number(current_va)), LAMBDA t :
             IF ~t.some THEN <<>>
             ELSE With(bytes_in_page(page_offset(current_va), remaining), LAMBDA n :
                      <<[ppn |-> t.ppn, off |-> page_offset(current_va), len |-> n]>>
                          \o translated_byte_buffer_readonly(P, root, current_va + n,
                                                              remaining - n)))

\* the bytes of a slice, read through the kernel's identity mapping
slice_bytes(P, s) == [k \in 1 .. s.len |-> P.data[s.ppn][s.off + k - 1]]

RECURSIVE write_buffers(_, _, _)
\* the loop of sys_write: every slice is put on the console, byte by byte
write_buffers(P, buffers, i) ==
    IF i > Len(buffers) THEN <<>>
    ELSE slice_bytes(P, buffers[i]) \o write_buffers(P, buffers, i + 1)

FD_STDOUT == 1

\* sys_write: the return value, the bytes put on the console and the slices
sys_write(P, ms, fd, buf, len) ==
    IF fd # FD_STDOUT THEN [ret |-> 0 - 1, out |-> <<>>, slices |-> <<>>]
    ELSE With(translated_byte_buffer_readonly(P, ms.root, buf, len), LAMBDA buffers :
         With(write_buffers(P, buffers, 1), LAMBDA out :
             [ret |-> Len(out), out |-> out, slices |-> buffers]))

\* the calls user programs make: fd, buf, len
WriteArgs ==
    [fd : {FD_STDOUT}, buf : {0, 1, PageBytes + 1}, len : {0, 1, PageBytes, 2 * PageBytes + 1}]
        \cup {[fd |-> 2, buf |-> 0, len |-> 1]}
        \cup [fd : {FD_STDOUT}, buf : {TRAP_CONTEXT, TRAMPOLINE + 1}, len : {1}]

\* trap_handler, UserEnvCall: sys_write
SysWrite(a) ==
    /\ UserMode
    /\ \E r \in {sys_write(Phys, tasks[current_task].memory_set, a.fd, a.buf, a.len)} :
           last' = [LastNone EXCEPT !.op = "write", !.pid = current_task, !.ret = r.ret,
                                   !.out = r.out, !.slices = r.slices, !.args = a,
                                   !.before = <<tasks, Phys>>]
    /\ UNCHANGED <<KERNEL_SPACE_INTERNAL, KERNEL_SPACE, intr, tasks, current_task,
                   current_time_slice, phase, num_loaded, mem_calls, ready_q,
                   allocVars, physVars, hartVars, ptVars, appVars, alloc_last>>

MAP_FAILED == 0 - 1

\* the calls user programs make: addr, length, prot, and the flags
\* MAP_ANONYMOUS (anon) and MAP_FIXED (fixed)
MmapArgs ==
    { [addr |-> 0, length |-> 1, prot |-> {"R", "W"}, anon |-> TRUE, fixed |-> FALSE],
      [addr |-> USER_STACK_BOTTOM, length |-> PageBytes, prot |-> {"R"}, anon |-> TRUE,
       fixed |-> TRUE],
      [addr |-> MMAP_START + 1, length |-> 0, prot |-> {"R"}, anon |-> TRUE,
       fixed |-> FALSE] }
MunmapArgs ==
    { [addr |-> MMAP_START, length |-> PageBytes],
      [addr |-> TRAP_CONTEXT, length |-> 1],
      [addr |-> USER_STACK_BOTTOM + 1, length |-> PageBytes] }

\* the same calls and more: two pages, an address hint, MAP_FIXED at an address
\* inside a page, no MAP_ANONYMOUS
SysMmapArgs ==
    MmapArgs \cup
    { [addr |-> 0, length |-> PageBytes + 1, prot |-> {"R"}, anon |-> TRUE,
       fixed |-> FALSE],
      [addr |-> MMAP_START + PageBytes + 1, length |-> PageBytes, prot |-> {"R", "X"},
       anon |-> TRUE, fixed |-> FALSE],
      [addr |-> MMAP_START + 1, length |-> 1, prot |-> {"R"}, anon |-> TRUE,
       fixed |-> TRUE],
      [addr |-> 0, length |-> 1, prot |-> {"R", "W"}, anon |-> FALSE, fixed |-> FALSE] }
\* the same calls and more: a region of two pages and its second page only,
\* the first page of the image, a page where nothing is mapped, length 0
SysMunmapArgs ==
    MunmapArgs \cup
    { [addr |-> MMAP_START, length |-> 2 * PageBytes],
      [addr |-> MMAP_START + PageBytes, length |-> 1],
      [addr |-> 0, length |-> 1],
      [addr |-> 3 * PageBytes, length |-> PageBytes],
      [addr |-> MMAP_START, length |-> 0] }

\* the operation op(a) on the current task's memory set gave r = [M, ret, msg]
MemCallDone(op, r, a) ==
    LET pid == current_task
    IN  /\ mem_calls' = mem_calls + 1
        /\ SetPhys(r.M.P)
        /\ tasks' = [tasks EXCEPT ![pid].memory_set = r.M.ms,
                                  ![pid].owned = OwnedAfter(@, bitmap, r.M.P.bitmap)]
        /\ phase' = IF r.M.panic # NoPanic THEN "panic" ELSE phase
        /\ last' = [LastNone EXCEPT !.op = op, !.pid = pid, !.ret = r.ret,
                                    !.msg = r.msg, !.args = a,
                                    !.before = <<tasks, Phys>>]
        /\ UNCHANGED <<KERNEL_SPACE_INTERNAL, KERNEL_SPACE, intr, current_task,
                       current_time_slice, num_loaded, ready_q, restOfKernel>>

\* sys_mmap: (flags & MAP_ANONYMOUS) != 0
mmap_anonymous_Always(a) == TRUE
mmap_anonymous(a) == a.anon

\* sys_mmap: prot as a MapPermission
mmap_perm_NoUser(prot) == prot
mmap_perm(prot) == {"U"} \cup prot

\* sys_mmap on memory set M0: the memory set after the call, the return
\* value and the line put on the console
sys_mmap(M0, a) ==
    IF ~mmap_anonymous(a)
    THEN [M |-> M0, ret |-> MAP_FAILED,
          msg |-> "[mmap] Error: Only MAP_ANONYMOUS is supported"]
    ELSE IF a.length = 0
    THEN [M |-> M0, ret |-> MAP_FAILED, msg |-> "[mmap] Error: length must be > 0"]
    ELSE IF a.addr # 0 /\ a.fixed /\ a.addr % PageBytes # 0
    THEN [M |-> M0, ret |-> MAP_FAILED, msg |-> "[mmap] Error: addr must be page-aligned"]
    ELSE LET aligned_length == align_up(a.length)
             virt_addr == IF a.addr # 0 /\ a.fixed THEN a.addr
                          ELSE IF a.addr # 0 THEN align_down(a.addr)
                          ELSE MMAP_START
             start_va == virt_addr
             end_va == start_va + aligned_length
             perm == mmap_perm(a.prot)
         IN  With(push(M0, MapArea_new(start_va, end_va, "Framed", perm), NoData),
                  LAMBDA M1 :
                  IF M1.panic # NoPanic
                  THEN [M |-> M1, ret |-> MAP_FAILED, msg |-> M1.panic]
                  ELSE [M |-> M1, ret |-> start_va, msg |-> "[mmap] Mapped region"])

\* trap_handler, UserEnvCall: sys_mmap
SysMmap(a) ==
    /\ UserMode
    /\ mem_calls < MaxMemCalls
    /\ \E r \in {sys_mmap([P |-> Phys, ms |-> tasks[current_task].memory_set,
                             panic |-> NoPanic], a)} :
           MemCallDone("mmap", r, a)

\* the search loop of sys_munmap: the index of the area to remove, or None
RECURSIVE munmap_find(_, _, _, _)
munmap_find(areas, start_va, end_va, i) ==
    IF i > Len(areas) THEN None
    ELSE LET area_start == areas[i].start * PageBytes
             area_end == areas[i].end * PageBytes
         IN  IF start_va < area_end /\ end_va > area_start
             THEN IF start_va = area_start /\ end_va = area_end THEN i ELSE None
             ELSE munmap_find(areas, start_va, end_va, i + 1)

\* sys_munmap on memory set M0: the memory set after the call, the return
\* value and the line put on the console
sys_munmap(M0, a) ==
    IF a.addr % PageBytes # 0
    THEN [M |-> M0, ret |-> 0 - 1, msg |-> "[munmap] Error: addr must be page-aligned"]
    ELSE IF a.length = 0
    THEN [M |-> M0, ret |-> 0 - 1, msg |-> "[munmap] Error: length must be > 0"]
    ELSE LET start_va == a.addr
             end_va == start_va + align_up(a.length)
         IN  With(munmap_find(M0.ms.areas, start_va, end_va, 1), LAMBDA area_index :
                  IF area_index = None
                  THEN [M |-> M0, ret |-> 0 - 1,
                        msg |-> "[munmap] Error: region not found or partial"]
                  ELSE With(remove_area(M0, area_index), LAMBDA M1 :
                           IF M1.panic # NoPanic
                           THEN [M |-> M1, ret |-> 0 - 1, msg |-> M1.panic]
                           ELSE [M |-> M1, ret |-> 0,
                                 msg |-> "[munmap] Unmapped region"]))

\* trap_handler, UserEnvCall: sys_munmap
SysMunmap(a) ==
    /\ UserMode
    /\ mem_calls < MaxMemCalls
    /\ \E r \in {sys_munmap([P |-> Phys, ms |-> tasks[current_task].memory_set,
                               panic |-> NoPanic], a)} :
           MemCallDone("munmap", r, a)

NextKernel ==
    \/ KernelInit
    \/ \E e \in ElfIds : LoadApp(e, MaxApps)
    \/ RunFirstTask
    \/ TimerTick
    \/ Fault
    \/ SysExit
    \/ SysYield
    \/ \E a \in MmapArgs : SysMmap(a)
    \/ \E a \in MunmapArgs : SysMunmap(a)

Spec == InitKernel /\ [][NextKernel]_vars

\* the kernel running more applications, none of which maps or unmaps memory
NextSched ==
    \/ KernelInit
    \/ \E e \in ElfIds : LoadApp(e, SchedApps)
    \/ RunFirstTask
    \/ TimerTick
    \/ KernelTimer
    \/ Fault
    \/ SysExit
    \/ SysYield

SpecSched == InitSched /\ [][NextSched]_vars

\* the same kernel with the progress the machine gives it: boot goes on to
\* the first task, a timer interrupt that is enabled and pending is taken,
\* and a task that calls sys_yield gets its call served
SpecSchedFair ==
    /\ SpecSched
    /\ WF_vars(KernelInit)
    /\ WF_vars(RunFirstTask)
    /\ WF_vars(TimerTick)
    /\ WF_vars(SysYield)

\* the kernel serving the system calls of its applications
NextSys ==
    \/ KernelInit
    \/ \E e \in ElfIds : LoadApp(e, MaxApps)
    \/ RunFirstTask
    \/ \E a \in WriteArgs : SysWrite(a)
    \/ \E a \in SysMmapArgs : SysMmap(a)
    \/ \E a \in SysMunmapArgs : SysMunmap(a)

SpecSys == InitKernel /\ [][NextSys]_vars

\* the kernel taking exceptions from its applications and from itself
NextTrap ==
    \/ KernelInit
    \/ \E e \in ElfIds : LoadApp(e, MaxApps)
    \/ RunFirstTask
    \/ TimerTick
    \/ \E cause \in Exceptions : \E is_user_mode \in BOOLEAN : Trap(cause, is_user_mode)

SpecTrap == InitKernel /\ [][NextTrap]_vars

(***************************************************************************)
(* The system-call arm of trap_handler and the dispatcher                  *)
(***************************************************************************)
\* system call numbers of the dispatcher
SYSCALL_WRITE == 64
SYSCALL_EXIT == 93
SYSCALL_YIELD == 124
SYSCALL_GET_TIME == 169
\* system call numbers only the user library knows
SYS_MMAP == 222
SYS_MUNMAP == 215

\* syscall/mod.rs holds three bodies of syscall() between merge markers: the
\* stub, the match on the number, and the one that forwards to the firmware
SyscallVariants == {"stub", "dispatch", "forward"}

\* what the firmware leaves in a0 for a forwarded call
FirmwareRets == {0, 0 - 2}
\* readings of mtime
TimeReads == {5}
\* user program counters at an ecall
EcallPcs == {0, 8}
\* numbers user programs put in a7
SyscallIds ==
    {SYSCALL_WRITE, SYSCALL_EXIT, SYSCALL_YIELD, SYSCALL_GET_TIME, SYS_MMAP, SYS_MUNMAP, 0}
\* values user programs put in a0..a5
EcallArgs ==
    {<<FD_STDOUT, 0, 1, 0, 0, 0>>, <<FD_STDOUT, PageBytes + 1, 1, 0, 0, 0>>,
     <<2, 0, 1, 0, 0, 0>>, <<0, PageBytes, 3, 3, 0, 0>>}

\* the saved registers the arm reads or could write: ra, sp, a0..a7
SavedRegs == {1, 2} \cup (10 .. 17)

\* the trap frame of a task that executed ecall at pc
EcallFrame(pc, syscall_id, a) ==
    [sepc |-> pc,
     x |-> [r \in SavedRegs |-> IF r = 17 THEN syscall_id
                                 ELSE IF r \in 10 .. 15 THEN a[r - 9] ELSE 0]]

\* syscall(): the function reached and the arguments it is given
syscall(variant, syscall_id, args) ==
    IF variant = "stub" THEN [route |-> "none", passed |-> <<>>]
    ELSE IF variant = "forward"
    THEN [route |-> "firmware", passed |-> <<args[1], args[2], args[3]>>]
    ELSE CASE syscall_id = SYSCALL_WRITE ->
                  [route |-> "sys_write", passed |-> <<args[1], args[2], args[3]>>]
           [] syscall_id = SYSCALL_EXIT -> [route |-> "sys_exit", passed |-> <<args[1]>>]
           [] syscall_id = SYSCALL_YIELD -> [route |-> "sys_yield", passed |-> <<>>]
           [] syscall_id = SYSCALL_GET_TIME -> [route |-> "sys_get_time", passed |-> <<>>]
           [] OTHER -> [route |-> "unsupported", passed |-> <<>>]

\* the value the function reached returns, with what it prints
syscall_ret(P, ms, d, fw, now) ==
    CASE d.route = "sys_write" ->
             With(sys_write(P, ms, d.passed[1], d.passed[2], d.passed[3]), LAMBDA r :
                 [ret |-> r.ret, out |-> r.out, msg |-> ""])
      [] d.route = "sys_yield" -> [ret |-> 0, out |-> <<>>, msg |-> "[kernel] sys_yield called"]
      [] d.route = "sys_get_time" -> [ret |-> now, out |-> <<>>, msg |-> ""]
      [] d.route = "sys_exit" ->
             [ret |-> 0, out |-> <<>>, msg |-> "[kernel] Application exited with code"]
      [] d.route = "firmware" -> [ret |-> fw, out |-> <<>>, msg |-> ""]
      [] d.route = "unsupported" ->
             [ret |-> 0 - 1, out |-> <<>>, msg |-> "[kernel] Unsupported syscall_id"]
      [] OTHER -> [ret |-> 0 - 1, out |-> <<>>, msg |-> ""]

\* trap_handler, UserEnvCall arm: what it writes into the trap frame
user_env_call_SameSepc(cx, ret) == [cx EXCEPT !.x[10] = ret]
user_env_call(cx, ret) == [cx EXCEPT !.sepc = cx.sepc + 4, !.x[10] = ret]

\* trap_handler, UserEnvCall arm: sepc is advanced, syscall() is called with
\* a7 and a0..a5 of the frame, its value is stored in a0; sys_exit does not
\* return (it shuts the machine down)
UserEnvCall(variant, syscall_id, a, pc, fw, now) ==
    /\ UserMode
    /\ \E cx \in {EcallFrame(pc, syscall_id, a)} :
       \E d \in {syscall(variant, cx.x[17],
                         <<cx.x[10], cx.x[11], cx.x[12], cx.x[13], cx.x[14], cx.x[15]>>)} :
       \E r \in {syscall_ret(Phys, tasks[current_task].memory_set, d, fw, now)} :
           /\ phase' = IF d.route = "sys_exit" THEN "shutdown" ELSE phase
           /\ last' = [LastNone EXCEPT
                          !.op = "ecall", !.pid = current_task, !.variant = variant,
                          !.args = <<syscall_id>> \o a, !.route = d.route,
                          !.passed = d.passed, !.ret = r.ret, !.out = r.out, !.msg = r.msg,
                          !.returned = (d.route # "sys_exit"),
                          !.cx_before = cx,
                          !.cx_after = IF d.route = "sys_exit"
                                       THEN [cx EXCEPT !.sepc = cx.sepc + 4]
                                       ELSE user_env_call(cx, r.ret),
                          !.before = <<tasks, Phys, mem_calls>>,
                          !.after = <<tasks, Phys, mem_calls>>]
    /\ UNCHANGED <<KERNEL_SPACE_INTERNAL, KERNEL_SPACE, intr, tasks, current_task,
                   current_time_slice, num_loaded, mem_calls, ready_q,
                   allocVars, physVars, hartVars, ptVars, appVars, alloc_last>>

\* the kernel serving ecalls through the dispatcher
NextEcall ==
    \/ KernelInit
    \/ \E e \in ElfIds : LoadApp(e, 1)
    \/ RunFirstTask
    \/ \E variant \in SyscallVariants : \E syscall_id \in SyscallIds : \E a \in EcallArgs :
       \E pc \in EcallPcs : \E fw \in FirmwareRets : \E now \in TimeReads :
           UserEnvCall(variant, syscall_id, a, pc, fw, now)

SpecEcall == InitKernel /\ [][NextEcall]_vars

(***************************************************************************)
(* Paired alloc()/dealloc() on one hart (mm::test)                         *)
(***************************************************************************)
\* frames of the allocator under test
PairFrames == 4
\* frames taken and not yet given back, at most (mm::test takes two)
MaxOpen == 2

\* any allocator state: every bitmap and every cursor position
InitPair ==
    /\ total_frames = PairFrames
    /\ bitmap \in [0 .. PairFrames - 1 -> BOOLEAN]
    /\ next \in 0 .. PairFrames - 1
    /\ ptmem = [p \in FrameRange(PairFrames) |-> ZeroTable]
    /\ data = [p \in FrameRange(PairFrames) |-> ZeroPage]
    /\ alloc_last = [op |-> "none", open |-> <<>>, p |-> None, before |-> <<>>]
    /\ hart = [h \in Harts |-> IdleHart]
    /\ held = [h \in Harts |-> {}]
    /\ calls = 0
    /\ pt_root = <<>> /\ pt_last = <<>>
    /\ KernelOff /\ AppsOff

\* FRAME_ALLOCATOR.alloc()
FrameAlloc ==
    /\ Len(alloc_last.open) < MaxOpen
    /\ \E r \in {alloc(Phys)} :
        /\ SetPhys(r.P)
        /\ alloc_last' =
               IF r.ppn = None
               THEN [alloc_last EXCEPT !.op = "alloc_none", !.p = None, !.before = <<>>]
               ELSE [alloc_last EXCEPT !.op = "alloc", !.p = r.ppn, !.before = <<>>,
                        !.open = Append(@, [p |-> r.ppn, before |-> bitmap])]
    /\ UNCHANGED restOfPair

\* FRAME_ALLOCATOR.dealloc(frame) of the frame taken last
FrameDealloc ==
    /\ alloc_last.open # <<>>
    /\ \E top \in {alloc_last.open[Len(alloc_last.open)]} :
        /\ bitmap' = dealloc(bitmap, top.p, total_frames)
        /\ alloc_last' = [op |-> "dealloc", p |-> top.p, before |-> top.before,
                          open |-> SubSeq(alloc_last.open, 1, Len(alloc_last.open) - 1)]
    /\ UNCHANGED <<next, physVars, restOfPair>>

NextPair == FrameAlloc \/ FrameDealloc

SpecPair == InitPair /\ [][NextPair]_vars

(***************************************************************************)
(* The embedded application table                                          *)
(***************************************************************************)
\* applications embedded by the build, at most
MaxEmbedded == 3
\* a .quad, and the boundary .align 3 asks for
QuadBytes == 8
\* sizes of the ELF files: a multiple of the alignment or not
BlobLens == {QuadBytes, QuadBytes + 4, 2 * QuadBytes}

AlignUp(a) == ((a + QuadBytes - 1) \div QuadBytes) * QuadBytes

RECURSIVE place_blobs(_, _)
\* build.rs, second pass: each blob is placed at the next aligned address
\* after what was emitted before it, between _app_i_start and _app_i_end
place_blobs(lens, at) ==
    IF lens = <<>> THEN <<>>
    ELSE LET s == AlignUp(at)
         IN  <<[start |-> s, end |-> s + Head(lens)]>>
                 \o place_blobs(Tail(lens), s + Head(lens))

RECURSIVE app_pointers(_)
\* build.rs, first pass: two quads for each application
app_pointers(syms) ==
    IF syms = <<>> THEN <<>>
    ELSE <<Head(syms).start, Head(syms).end>> \o app_pointers(Tail(syms))

\* build.rs: the section emitted for applications of the given sizes, as
\* the quads of the table at _num_app and the symbols of the blobs
build_main(lens) ==
    LET n == Len(lens)
        syms == place_blobs(lens, QuadBytes * (1 + 2 * n))
    IN  [table |-> <<n>> \o app_pointers(syms), blobs |-> syms]

\* loader: the quad at _num_app
get_num_app(sec) == sec.table[1]

\* loader: the num_app + 1 quads that follow the count
app_start(sec) == SubSeq(sec.table, 2, get_num_app(sec) + 2)

\* loader: the byte range of application app_id
get_app_data(sec, app_id) ==
    [start |-> app_start(sec)[app_id + 1], end |-> app_start(sec)[app_id + 2]]

InitApps ==
    /\ \E n \in 1 .. MaxEmbedded : \E lens \in [1 .. n -> BlobLens] :
           link_apps = build_main(lens)
    /\ app_range = <<>>
    /\ total_frames = 0 /\ bitmap = <<>> /\ next = 0
    /\ hart = [h \in Harts |-> IdleHart]
    /\ held = [h \in Harts |-> {}]
    /\ calls = 0
    /\ ptmem = <<>> /\ data = <<>>
    /\ pt_root = <<>> /\ pt_last = <<>>
    /\ KernelOff /\ PairOff

\* load_apps: one call of get_app_data
GetAppData(app_id) ==
    /\ app_id < get_num_app(link_apps)
    /\ app_range' = [app_id |-> app_id, range |-> get_app_data(link_apps, app_id)]
    /\ UNCHANGED <<link_apps, restOfApps>>

NextApps == \E app_id \in 0 .. MaxEmbedded - 1 : GetAppData(app_id)

SpecApps == InitApps /\ [][NextApps]_vars

(***************************************************************************)
(* Properties of the kernel                                                *)
(***************************************************************************)
Up == phase \in {"load", "run"}
LiveSlots == {i \in Slots : IsTask(tasks[i])}
\* translate() of task i's page table
TaskTranslate(i, vpn) == translate(Phys, tasks[i].memory_set.root, vpn)
\* the frames the areas of task i track
Tracked(i) ==
    UNION {{tasks[i].memory_set.areas[k].data_frames[v] :
                v \in DOMAIN tasks[i].memory_set.areas[k].data_frames} :
           k \in 1 .. Len(tasks[i].memory_set.areas)}
\* the byte a user load from va reads in memory set ms (None: unmapped)
UserByte(ms, va) ==
    LET t == translate(Phys, ms.root, page_number(va))
    IN  IF t.some THEN data[t.ppn][page_offset(va)] ELSE None
\* the pages a PT_LOAD header spans
SegPages(ph) == page_number(ph.vaddr) .. page_number(align_up(ph.vaddr + ph.mem_size)) - 1
LoadedSegs == Elfs[tasks[last.pid].elf].segs

\* C2: once a task has been killed and its address space dropped, every
\* frame that was in use on its behalf (leaf frames, trap-context page,
\* page-table frames, trampoline frame) is free again.
C2_DropFreesAll ==
    last.op = "kill" => \A p \in last.owned : ~bitmap[p - start_ppn]

\* C3: for every Framed area of every user address space and every vpn of
\* its range, the page table translates vpn to the frame the area records,
\* with flags that contain the area's permissions and V.
C3_FramedAreasMapped ==
    Up => \A i \in LiveSlots : \A k \in 1 .. Len(tasks[i].memory_set.areas) :
              LET area == tasks[i].memory_set.areas[k]
              IN  area.map_type = "Framed" =>
                      \A vpn \in area.start .. area.end - 1 :
                          LET t == TaskTranslate(i, vpn)
                          IN  /\ t.some
                              /\ vpn \in DOMAIN area.data_frames
                              /\ t.ppn = area.data_frames[vpn]
                              /\ area.map_perm \cup {"V"} \subseteq t.flags

\* C5: the TRAMPOLINE page of every user address space translates to the
\* frame the kernel address space maps there, with flags V|R|X and no U.
C5_OneTrampolineFrame ==
    Up => \A i \in LiveSlots :
              LET k == translate(Phys, KERNEL_SPACE.root, page_number(TRAMPOLINE))
                  t == TaskTranslate(i, page_number(TRAMPOLINE))
              IN  k.some /\ t.some /\ t.ppn = k.ppn /\ t.flags = {"V", "R", "X"}

\* C6: the TRAP_CONTEXT page of every live user address space translates to
\* a frame tracked by an area of that address space and of no other.
C6_TrapContextOwned ==
    Up => \A i \in LiveSlots :
              LET t == TaskTranslate(i, page_number(TRAP_CONTEXT))
              IN  /\ t.some
                  /\ t.ppn \in Tracked(i)
                  /\ \A j \in LiveSlots \ {i} : t.ppn \notin Tracked(j)

\* C7: after from_elf, for every PT_LOAD segment (that shares no page with
\* another segment) the user byte at vaddr+k is file byte k for k < file
\* size, and every other byte of the segment's pages is zero.
C7_DataAtVaddr ==
    last.op = "load" =>
        \A n \in 1 .. Len(LoadedSegs) :
            LET ph == LoadedSegs[n]
            IN  (\A m \in 1 .. Len(LoadedSegs) :
                     m # n => SegPages(LoadedSegs[m]) \cap SegPages(ph) = {})
                => \A va \in align_down(ph.vaddr) .. align_up(ph.vaddr + ph.mem_size) - 1 :
                       UserByte(tasks[last.pid].memory_set, va)
                           = IF va >= ph.vaddr /\ va < ph.vaddr + Len(ph.bytes)
                             THEN ph.bytes[va - ph.vaddr + 1] ELSE 0

\* C8: after from_elf, a page covered by two PT_LOAD segments carries the
\* permissions of both and still holds the file bytes of the earlier one.
C8_OverlapMerged ==
    last.op = "load" =>
        \A n, m \in 1 .. Len(LoadedSegs) :
            n < m => \A vpn \in SegPages(LoadedSegs[n]) \cap SegPages(LoadedSegs[m]) :
                LET t == TaskTranslate(last.pid, vpn)
                    first == LoadedSegs[n]
                IN  /\ t.some
                    /\ {"U"} \cup first.flags \cup LoadedSegs[m].flags \subseteq t.flags
                    /\ \A k \in 0 .. Len(first.bytes) - 1 :
                           page_number(first.vaddr + k) = vpn
                               => UserByte(tasks[last.pid].memory_set, first.vaddr + k)
                                      = first.bytes[k + 1]

\* C9: at every schedule point of switch_task (slice expiry, or the running
\* task killed) the task chosen to run is the one that has been Ready the
\* longest, tasks loaded at boot counting in load order.
C9_StrictFifo ==
    (last.op \in {"timer", "kill"} /\ last.switched /\ last.chosen # None)
        => last.chosen = last.fifo_head

C11_KernelTimerNoSwitch ==
    last.op = "ktimer" =>
        /\ last.rearmed
        /\ ~last.switched
        /\ last.before = <<tasks>>
        /\ current_task = last.pid
        /\ current_time_slice = last.slice_before

\* a supervisor-mode timer trap arrived while a task was current, another
\* was Ready and the slice was one tick from running out
C11_Witness ==
    /\ last.op = "ktimer"
    /\ current_task # None
    /\ last.other_ready
    /\ last.slice_before = time_slice - 1

\* a task that was loaded and has since been removed from the task table
\* (exit_current_and_run_next: mark_zombie, remove_task)
Exited(pid) == pid < num_loaded /\ ~IsTask(tasks[pid])

\* C12: the step that kills a task leaves it removed and not current, and a
\* task that has been removed stays removed: no later step selects it, marks
\* it Running or makes it the current task.
C12_ZombieNeverRuns ==
    [][/\ last'.op = "kill" =>
              /\ ~IsTask(tasks'[last'.pid])
              /\ current_task' # last'.pid
              /\ last'.chosen # last'.pid
       /\ \A pid \in Slots :
              Exited(pid) =>
                  /\ Exited(pid)'
                  /\ current_task' # pid
                  /\ tasks'[pid].status # "Running"
                  /\ last'.switched => last'.chosen # pid]_vars

\* slot 1 was killed, and when slot 2 was killed later the scan for the next
\* task went over slot 1 and slot 2 to slot 0
C12_Witness ==
    /\ Exited(1)
    /\ last.op = "kill" /\ last.switched
    /\ last.pid = 2 /\ last.chosen = 0

\* C13: after a fault of the running user task has been handled, that task
\* is removed and nothing else is: every other task control block (address
\* space included) is as before, but for the status of the task switched
\* to, and the kernel is still up while another task remains.
C13_FaultKillsOnlyOffender ==
    last.op \in {"kill", "kill_panic"} =>
        LET old == last.before[1]
            others == {j \in Slots \ {last.pid} : IsTask(old[j])}
        IN  /\ ~IsTask(tasks[last.pid])
            /\ \A j \in others :
                   /\ tasks[j].memory_set = old[j].memory_set
                   /\ tasks[j].trap_cx_ppn = old[j].trap_cx_ppn
                   /\ tasks[j].status = IF j = current_task THEN "Running"
                                        ELSE old[j].status
            /\ others # {} => phase = "run" /\ current_task \in others
            /\ others = {} => phase = "shutdown"

\* C14: sys_exit shuts the machine down exactly when no other task remains;
\* while another remains the caller is removed and a remaining task runs.
C14_ExitShutdownIffLast ==
    last.op = "exit" =>
        LET others == {j \in Slots \ {last.pid} : IsTask(tasks[j])}
        IN  /\ phase = "shutdown" <=> others = {}
            /\ others # {} =>
                   /\ ~IsTask(tasks[last.pid])
                   /\ current_task \in others
                   /\ tasks[current_task].status = "Running"

\* C15: sys_yield returns 0, and when another task is Ready the caller has
\* gone back to Ready and another task is Running once the call is over.
C15_YieldSwitches ==
    last.op = "yield" =>
        /\ last.ret = 0
        /\ (\E j \in Slots \ {last.pid} : tasks[j].status = "Ready") =>
               /\ current_task # last.pid
               /\ tasks[last.pid].status = "Ready"
               /\ tasks[current_task].status = "Running"

\* the user buffer [buf, buf+len) of the last call lies in mapped pages
BufferMapped ==
    \A va \in last.args.buf .. last.args.buf + last.args.len - 1 :
        TaskTranslate(last.pid, page_number(va)).some

RECURSIVE SumLen(_, _)
SumLen(s, i) == IF i > Len(s) THEN 0 ELSE s[i].len + SumLen(s, i + 1)

\* C16: sys_write(1, buf, len) on a buffer in mapped pages returns len and
\* puts exactly the user bytes buf[0..len) on the console, in order; the
\* slices are cut at page boundaries, follow the pages of the buffer in
\* address order, and their lengths add up to len.
C16_WriteEmitsBuffer ==
    (last.op = "write" /\ last.args.fd = 1 /\ BufferMapped) =>
        LET buf == last.args.buf
            len == last.args.len
            s == last.slices
        IN  /\ last.ret = len
            /\ last.out = [k \in 1 .. len |->
                               UserByte(tasks[last.pid].memory_set, buf + k - 1)]
            /\ SumLen(s, 1) = len
            /\ \A i \in 1 .. Len(s) :
                   /\ s[i].len > 0 /\ s[i].off + s[i].len <= PageBytes
                   /\ s[i].ppn = TaskTranslate(last.pid, page_number(buf) + i - 1).ppn
                   /\ i > 1 => s[i].off = 0
                   /\ i < Len(s) => s[i].off + s[i].len = PageBytes
                   /\ i = 1 => s[i].off = page_offset(buf)

\* a write that starts inside a page and crosses two page boundaries
C16_Witness ==
    /\ last.op = "write" /\ last.args.fd = 1 /\ BufferMapped
    /\ page_offset(last.args.buf) # 0
    /\ Len(last.slices) = 3
    /\ last.ret = 2 * PageBytes + 1
    /\ \E k \in 1 .. Len(last.out) : last.out[k] # 0

\* the caller's memory set and physical memory before the last system call
MemBefore == last.before[1][last.pid].memory_set
PhysBefore == last.before[2]

\* the last sys_mmap call added one Framed area of ceil(length / PAGE_SIZE)
\* pages with permissions U + prot, returned its start, and every page of it
\* translates to a zero-filled frame of its own
MmapAdded ==
    LET a == last.args
        ms == tasks[last.pid].memory_set
        n == Len(ms.areas)
        new == ms.areas[n]
        start_va == IF a.addr = 0 THEN MMAP_START
                    ELSE IF a.fixed THEN a.addr ELSE align_down(a.addr)
        start == page_number(start_va)
        pages == (a.length + PageBytes - 1) \div PageBytes
        range == start .. start + pages - 1
    IN  /\ n = Len(MemBefore.areas) + 1
        /\ SubSeq(ms.areas, 1, n - 1) = MemBefore.areas
        /\ new.map_type = "Framed"
        /\ new.start = start /\ new.end = start + pages
        /\ new.map_perm = {"U"} \cup a.prot
        /\ last.ret = start_va
        /\ \A vpn \in range :
               LET t == TaskTranslate(last.pid, vpn)
               IN  /\ t.some
                   /\ vpn \in DOMAIN new.data_frames /\ t.ppn = new.data_frames[vpn]
                   /\ t.flags = {"V", "U"} \cup a.prot
                   /\ bitmap[t.ppn - start_ppn]
                   /\ data[t.ppn] = ZeroPage
                   /\ \A w \in range \ {vpn} : TaskTranslate(last.pid, w).ppn # t.ppn
                   /\ \A i \in LiveSlots : \A k \in 1 .. Len(tasks[i].memory_set.areas) :
                          (i # last.pid \/ k # n) =>
                              \A v \in DOMAIN tasks[i].memory_set.areas[k].data_frames :
                                  tasks[i].memory_set.areas[k].data_frames[v] # t.ppn

C18_MunmapExact ==
    last.op = "munmap" =>
        LET a == last.args
            old == MemBefore.areas
            ms == tasks[last.pid].memory_set
            start_va == a.addr
            end_va == a.addr + align_up(a.length)
            exact == {i \in 1 .. Len(old) : /\ old[i].start * PageBytes = start_va
                                            /\ old[i].end * PageBytes = end_va}
        IN  /\ phase = "run"
            /\ last.ret \in {0, 0 - 1}
            /\ last.ret = 0 =>
                   /\ a.addr % PageBytes = 0
                   /\ \E i \in exact :
                          /\ ms.areas = SubSeq(old, 1, i - 1) \o SubSeq(old, i + 1, Len(old))
                          /\ \A v \in DOMAIN old[i].data_frames :
                                 ~bitmap[old[i].data_frames[v] - start_ppn]
                   /\ \A vpn \in page_number(start_va) .. page_number(end_va) - 1 :
                          ~TaskTranslate(last.pid, vpn).some
            /\ exact = {} => last.ret = 0 - 1
            /\ last.ret = 0 - 1 =>
                   /\ ms = MemBefore
                   /\ bitmap = PhysBefore.bitmap
                   /\ ptmem = PhysBefore.ptmem

\* the call just made is one of the three invalid-argument calls: sys_write
\* to a descriptor other than 1, sys_munmap of an unaligned address, sys_mmap
\* without MAP_ANONYMOUS
InvalidArgCall ==
    \/ last.op = "write" /\ last.args.fd # FD_STDOUT
    \/ last.op = "munmap" /\ last.args.addr % PageBytes # 0
    \/ last.op = "mmap" /\ ~last.args.anon

\* the call returned -1 and left the task table (with every address space)
\* and the physical memory (allocator, page tables, frames) as they were,
\* and put no user bytes on the console
ReturnedUnchanged ==
    /\ last.ret = 0 - 1
    /\ phase = "run"
    /\ tasks = last.before[1]
    /\ Phys = last.before[2]
    /\ last.out = <<>>

\* C19: sys_write with fd # 1, sys_munmap with an unaligned address and
\* sys_mmap without MAP_ANONYMOUS each return -1 and leave the address
\* spaces, the frame allocator and the task table unchanged; sys_write puts
\* nothing on the console, sys_mmap and sys_munmap put their one diagnostic
\* line on it.
C19_InvalidArgsRecoverable ==
    InvalidArgCall =>
        /\ ReturnedUnchanged
        /\ last.op = "write" => last.msg = ""
        /\ last.op = "munmap" => last.msg = "[munmap] Error: addr must be page-aligned"
        /\ last.op = "mmap" => last.msg = "[mmap] Error: Only MAP_ANONYMOUS is supported"

C19_Witness ==
    /\ last.op = "munmap"
    /\ last.args.addr % PageBytes # 0
    /\ last.ret = 0 - 1
    /\ last.msg # ""
    /\ Len(last.before[1][last.pid].memory_set.areas) > 0

\* C19 as stated: the three calls also leave the console output unchanged
C19_ConsoleUnchanged ==
    InvalidArgCall => ReturnedUnchanged /\ last.msg = ""

\* the sys_mmap call just made passed its argument checks and asked for
\* more pages than the frame allocator had free frames before the call
MmapOutOfFrames ==
    /\ last.op = "mmap"
    /\ last.args.anon
    /\ last.args.length > 0
    /\ (last.args.fixed /\ last.args.addr # 0) => last.args.addr % PageBytes = 0
    /\ Cardinality({i \in DOMAIN PhysBefore.bitmap : ~PhysBefore.bitmap[i]})
           < page_number(align_up(last.args.length))

\* C20: a sys_mmap call that needs more frames than the allocator has
\* returns -1, the kernel keeps running (no panic, no shutdown) and the
\* other tasks are as they were.
C20_MmapOomReturns ==
    MmapOutOfFrames =>
        /\ last.ret = 0 - 1
        /\ phase = "run"
        /\ \A p \in Slots : p # last.pid => tasks[p] = last.before[1][p]

\* the causes the claim lists as recognised
RecognisedCauses ==
    StoreFaults \cup LoadFaults \cup InstructionFaults \cup {"IllegalInstruction"}

\* C21: an exception taken from supervisor mode, and a trap taken from user
\* mode whose cause is not a recognised one, ends with the machine shut down
\* or the kernel panicked.
C21_UnexpectedTrapAborts ==
    (last.cause # "" /\ (last.spp = "Supervisor" \/ last.cause \notin RecognisedCauses))
        => phase \in {"shutdown", "panic"}

\* C22: the trap frame restored when a task is entered for the first time,
\* at boot or through a switch from a running task, has sepc = the ELF
\* entry point, sp = the user stack top, SPP = User and SPIE = 1.
C22_FirstEntryFrame ==
    last.first_entry =>
        /\ last.frame.sepc = Elfs[tasks[last.chosen].elf].entry
        /\ last.frame.sp = USER_STACK_TOP
        /\ last.frame.spp = "User"
        /\ last.frame.spie

\* the kernel address space that mm::init built translates page vpn
KernelMapped(vpn) == translate(Phys, KERNEL_SPACE_INTERNAL.root, vpn).some
\* the pages of the kernel stack of index i
StackPages(i) ==
    page_number(kernel_stack_position(i).bottom)
        .. page_number(kernel_stack_position(i).top) - 1
\* the kernel stacks are where the layout puts them, disjoint and mapped
StacksLaidOut ==
    \A i \in 0 .. MAX_APP_NUM - 1 :
        /\ kernel_stack_position(i).bottom >= 0
        /\ \A j \in 0 .. MAX_APP_NUM - 1 : i # j => StackPages(i) \cap StackPages(j) = {}
        /\ StackPages(i) # {}
        /\ \A vpn \in StackPages(i) : KernelMapped(vpn)

\* C23: once the kernel address space is built, the kernel stacks of all
\* task indexes are disjoint and mapped in it, and the page above each
\* stack, [top_i, top_i + PAGE_SIZE), is not mapped in it.
C23_KernelStackGuards ==
    phase \in {"load", "run"} =>
        /\ StacksLaidOut
        /\ \A i \in 0 .. MAX_APP_NUM - 1 :
               ~KernelMapped(page_number(kernel_stack_position(i).top))

\* the frame ppn lies in the kernel heap window
InHeapWindow(ppn) ==
    /\ ppn * PageBytes >= KERNEL_HEAP_START
    /\ ppn * PageBytes < KERNEL_HEAP_START + KERNEL_HEAP_SIZE

\* C24: no frame handed out by alloc() lies inside the kernel heap window
\* [KERNEL_HEAP_START, KERNEL_HEAP_START + KERNEL_HEAP_SIZE).
C24_FramesOutsideHeap ==
    \A i \in DOMAIN bitmap : bitmap[i] => ~InHeapWindow(start_ppn + i)

\* C25: every satp value switch_task writes to enter the kernel address
\* space is the token of the address space that mm::init built and
\* activated.
C25_KernelSpaceSingleton ==
    (last.switched /\ last.op # "first") => last.satp = token(KERNEL_SPACE_INTERNAL)

RECURSIVE LockReplay(_, _, _)
\* the lock operations tr[i ..] keep the discipline when the locks in held
\* are held before them: nothing is acquired twice, TASK_MANAGER is never
\* acquired while SCHEDULER is held, only held locks are released, and no
\* lock is held at a jump to __switch or __restore
LockReplay(tr, i, holding) ==
    IF i > Len(tr) THEN TRUE
    ELSE LET ev == tr[i]
         IN  CASE ev[1] = "acquire" ->
                      /\ ev[2] \notin holding
                      /\ ev[2] = "TASK_MANAGER" => "SCHEDULER" \notin holding
                      /\ LockReplay(tr, i + 1, holding \cup {ev[2]})
               [] ev[1] = "release" ->
                      /\ ev[2] \in holding
                      /\ LockReplay(tr, i + 1, holding \ {ev[2]})
               [] OTHER -> holding = {} /\ LockReplay(tr, i + 1, holding)

RangeFromPairs ==
    app_range # <<>> =>
        LET i == app_range.app_id
        IN  IF i % 2 = 0
            THEN app_range.range = link_apps.blobs[(i \div 2) + 1]
            ELSE /\ app_range.range.start = link_apps.blobs[((i - 1) \div 2) + 1].end
                 /\ app_range.range.end = link_apps.blobs[((i - 1) \div 2) + 2].start

\* C28: the table emitted at build time holds the count N followed by N+1
\* addresses, and for every application index i < N the byte range the
\* loader derives from table entries i and i+1 is exactly ELF blob i.
C28_AppTableRoundTrip ==
    /\ Len(link_apps.table) = 1 + (get_num_app(link_apps) + 1)
    /\ app_range # <<>> => app_range.range = link_apps.blobs[app_range.app_id + 1]

\* C29: from any allocator state, an alloc() that returns Some(p) followed
\* by dealloc(p) leaves free_frames() equal to its value before the alloc,
\* p lies in [start_ppn, end_ppn), and the bitmap is bit for bit what it was
\* before the pair.
C29_AllocDeallocRestores ==
    /\ alloc_last.op = "alloc" =>
           /\ alloc_last.p >= start_ppn
           /\ alloc_last.p < start_ppn + total_frames
    /\ alloc_last.op = "dealloc" =>
           /\ alloc_last.p >= start_ppn
           /\ alloc_last.p < start_ppn + total_frames
           /\ bitmap = alloc_last.before
           /\ free_frames(bitmap, total_frames)
                  = free_frames(alloc_last.before, total_frames)

C29_Witness ==
    /\ alloc_last.op = "dealloc"
    /\ alloc_last.open # <<>>
    /\ alloc_last.p = start_ppn
    /\ \E i \in 0 .. total_frames - 1 : alloc_last.before[i]
    /\ next # 0

\* the walk of map(vpn) over the table as it was before the call: which of
\* the error cases it is in
MapCase ==
    LET P0 == pt_last.P
        ix == indexes(pt_last.vpn)
        e2 == pt_last.root[ix[1]]
        free == free_frames(P0.bitmap, total_frames)
    IN  IF ~is_valid(e2) THEN (IF free < 2 THEN "oom" ELSE "fresh")
        ELSE IF is_leaf(e2) THEN "leaf at L2"
        ELSE LET e1 == P0.ptmem[pte_ppn(e2)][ix[2]]
             IN  IF ~is_valid(e1) THEN (IF free < 1 THEN "oom" ELSE "fresh")
                 ELSE IF is_leaf(e1) THEN "leaf at L1"
                 ELSE IF is_valid(P0.ptmem[pte_ppn(e1)][ix[3]]) THEN "mapped"
                 ELSE "fresh"

\* C30: map returns an error when the L0 leaf for vpn is already valid,
\* when an L2 or L1 slot on the walk is a leaf, and when a needed branch
\* frame cannot be allocated; in every error case translate(w) gives the
\* same result as before the call, for every vpn w.
C30_MapErrorsKeepTranslate ==
    pt_last.op = "map" =>
        /\ MapCase # "fresh" => pt_last.err # "ok"
        /\ pt_last.err # "ok" =>
               \A w \in AllVpns : translate(Phys, pt_root, w) = TranslateBefore(w)

\* an allocation failure at the second level, after the first-level table
\* was allocated and linked
C30_Witness ==
    /\ pt_last.op = "map"
    /\ pt_last.err = "Out of memory"
    /\ MapCase = "oom"
    /\ pt_root # pt_last.root
    /\ \E w \in AllVpns : translate(Phys, pt_root, w).some

\* C27: at the moment control first enters a user task the supervisor timer
\* interrupt is enabled in sie (STIE = 1), sstatus.SIE is clear in the
\* kernel and a timer has been set, so that a task that spins without making
\* system calls is interrupted by a tick.
C27_TimerLiveAtFirstEntry ==
    (last.switched /\ last.first_entry) =>
        /\ intr.stimer
        /\ ~intr.sie
        /\ intr.timer
        /\ ENABLED TimerTick

\* C31: the dispatcher routes 64 to write, 93 to exit, 124 to yield, 169 to
\* get_time, 222 to mmap and 215 to munmap, handing each the arguments it
\* takes from a0..a5 (all six for mmap); every other number returns -1 and
\* leaves the kernel state as it was
C31_DispatchRoutes ==
    last.op = "ecall" =>
        LET id == last.args[1]
            a == SubSeq(last.args, 2, 7)
        IN  CASE id = SYSCALL_WRITE ->
                     last.route = "sys_write" /\ last.passed = <<a[1], a[2], a[3]>>
              [] id = SYSCALL_EXIT -> last.route = "sys_exit" /\ last.passed = <<a[1]>>
              [] id = SYSCALL_YIELD -> last.route = "sys_yield"
              [] id = SYSCALL_GET_TIME -> last.route = "sys_get_time"
              [] id = SYS_MMAP -> last.route = "sys_mmap" /\ last.passed = a
              [] id = SYS_MUNMAP -> last.route = "sys_munmap" /\ last.passed = <<a[1], a[2]>>
              [] OTHER -> /\ last.ret = 0 - 1
                          /\ last.after = last.before
                          /\ phase = "run"

\* C32: a system call that returns to its caller leaves the saved sepc
\* advanced by exactly 4 and the saved a0 holding the return value, and no
\* other saved general-purpose register changed
C32_EcallFrameEffect ==
    (last.op = "ecall" /\ last.returned) =>
        /\ last.cx_after.sepc = last.cx_before.sepc + 4
        /\ last.cx_after.x[10] = last.ret
        /\ \A r \in SavedRegs \ {10} : last.cx_after.x[r] = last.cx_before.x[r]

C32_Witness ==
    /\ last.op = "ecall" /\ last.returned
    /\ last.route = "sys_write" /\ last.ret = 1
    /\ last.cx_before.x[10] = FD_STDOUT /\ last.cx_before.sepc = 8

\* C33: every task gets a full time slice: the scheduler's tick counter is 0
\* whenever a task is switched in (after a timer preemption, a yield, or the
\* exit or kill of another task), and the timer preempts only on the tick
\* that completes time_slice ticks
C33_FullTimeSlice ==
    (last.switched /\ last.chosen # None /\ phase = "run") =>
        /\ current_time_slice = 0
        /\ last.op = "timer" => last.slice_before + 1 = time_slice

\* C34: when a task exits or is killed and a task that has already run is
\* chosen next, that task resumes from the trap frame saved at its last trap,
\* not from a fresh frame at its ELF entry point with the initial stack pointer
C34_ResumeAfterExit ==
    (/\ last.op = "kill" /\ last.switched /\ last.chosen # None
     /\ last.before[1][last.chosen].entered) =>
        /\ last.path = "switch"
        /\ last.entry # app_init_context(tasks[last.chosen].entry_point,
                                         tasks[last.chosen].user_sp)

\* C35: alloc() returns None only when memory is exhausted: a call during
\* which at least one frame stays free from its first step to its last
\* returns Some, also when other harts change other bits of the same word
C35_NoneOnlyWhenExhausted ==
    \A h \in Harts :
        (hart[h].pc = "scan" /\ hart[h].offset >= total_frames) => hart[h].stayed = {}

\* C36: whenever user code can execute, at most one task is Running, and
\* current_task is Some(p) exactly when slot p holds a Running task; with
\* current_task = None no task is Running
C36_OneRunning ==
    phase = "run" =>
        /\ \A p, q \in Slots :
               (tasks[p].status = "Running" /\ tasks[q].status = "Running") => p = q
        /\ \A p \in Slots : (current_task = p) <=> (tasks[p].status = "Running")

C36_Witness ==
    /\ phase = "run" /\ last.op = "timer" /\ last.switched
    /\ last.prev = 0 /\ current_task = 1
    /\ tasks[0].status = "Ready" /\ tasks[1].status = "Running"

\* C37: removing regions never panics: in every address space built by
\* from_elf and changed by any sequence of sys_mmap and sys_munmap, every
\* page that remove_area (sys_munmap) or the drop of the address space (exit
\* or kill of the task) unmaps is mapped, so the kernel keeps running
C37_RemovalNeverPanics ==
    last.op \in {"munmap", "kill", "kill_panic"} => phase # "panic"

\* C38: the TrapContext that switch_task writes at kernel_stack_top - 34*8
\* lies inside the kernel stack [bottom, top) of the task it enters: the
\* size of TrapContext is at most 34*8 bytes
C38_TrapContextInStack ==
    (last.switched /\ last.chosen # None /\ last.op \in {"timer", "kill"}) =>
        /\ last.cx_write.lo >= 0 - KernelStackBytes
        /\ last.cx_write.hi <= 0
        /\ size_of_TrapContext <= trap_cx_offset

\* C39: sys_write emits only bytes of pages that the caller's page table
\* maps with U: every slice it puts on the console lies in such a page, and
\* for a buffer that starts in a page mapped without U (the trap-context
\* page, the trampoline) nothing is emitted
C39_WriteOnlyUserPages ==
    (last.op = "write" /\ last.args.fd = FD_STDOUT) =>
        /\ \A i \in 1 .. Len(last.slices) :
               "U" \in TaskTranslate(last.pid, page_number(last.args.buf) + i - 1).flags
        /\ (LET t == TaskTranslate(last.pid, page_number(last.args.buf))
            IN  t.some /\ "U" \notin t.flags) => last.out = <<>>

\* C40: no starvation: while the machine runs, with the running task
\* reaching schedule points (sys_yield, an expired time slice) and whatever
\* tasks exit or are killed in between, every task that is Ready is
\* eventually Running (or the machine has stopped)
C40_NoStarvation ==
    \A p \in Slots :
        (phase = "run" /\ tasks[p].status = "Ready")
            ~> (tasks[p].status = "Running" \/ phase # "run")

====
